---------------------------- MODULE Spec2Model ----------------------------
(***************************************************************************)
(* Archimator: polygon measurement on a page image, the panel-tiling       *)
(* optimiser and the polygon straightener.                                  *)
(*                                                                         *)
(* Numbers.  The program computes with floats.  Here every coordinate and   *)
(* length is a fixed-point integer counting HALF PIXELS (the finest grid    *)
(* the optimiser needs for its half-panel origins), an area counts eighths  *)
(* of a square pixel (the shoelace sum over half-pixel coordinates, whose   *)
(* halving is left out so that it stays exact), and the quantities that    *)
(* are genuinely fractional are kept exact: an overlap fraction is a count  *)
(* of 64ths, a waste percentage is a pair <<numerator, denominator>>.  The tolerance EPSILON = 1e-9 lies      *)
(* strictly between 0 and one grid step, so on grid values "v <= EPSILON"   *)
(* is "v <= 0" and "abs(v) < EPSILON" is "v = 0".                           *)
(***************************************************************************)
EXTENDS Integers, Sequences, FiniteSets, TLC

VARIABLES
    image,               \* app.image: TRUE when a page is loaded, FALSE for None
    polygons,            \* app.polygons: sequence of PolygonData records
    current_polygon,     \* app.current_polygon: points of the polygon being drawn
    draw_mode,           \* app.draw_mode
    selected_polygon,    \* app.selected_polygon: None or Some(0-based index)
    scale_factor,        \* app.scale_factor: real units per pixel
    config,              \* app.config: panel_width / panel_height (real units)
    panel_tiles_overlay, \* app.panel_tiles_overlay: None or Some(stored layout)
    _straighten_backup,  \* app._straighten_backup: None or Some(point list)
    zoom_level,          \* app.zoom_level as the exponent n of ZOOM_STEP ** n
    image_rotation,      \* app.image_rotation: 0, 90, 180 or 270
    dragging,            \* app.dragging
    drag_point_index,    \* app.drag_point_index: None or Some(0-based vertex index)
    _vertex_move_backup, \* app._vertex_move_backup: None (also: never set) or
                         \* Some(<<polygon index, vertex index, point list>>)
    scale_mode,          \* app.scale_mode
    scale_points,        \* app.scale_points: the clicks of a scale being defined
    scale_unit,          \* app.scale_unit: None while the attribute is not set
    scale_artifact,      \* app.scale_artifact: None or Some(record)
    session_ops,         \* history: how many operations an editing session has run
    provenance,          \* history: where the undo backups held were taken
    last_op,             \* history: the operation that ran last, the message box
                         \* it showed (None or Some(<<kind, text>>)), what it saw
    fn_args,             \* a function under test: its arguments, or None
    fn_result            \* a function under test: None, or Some(value returned)

vars == <<image, polygons, current_polygon, draw_mode, selected_polygon, scale_factor, config,
          panel_tiles_overlay, _straighten_backup, zoom_level, image_rotation, dragging,
          drag_point_index, _vertex_move_backup, scale_mode, scale_points, scale_unit,
          scale_artifact, session_ops, provenance, last_op, fn_args, fn_result>>

\* Python's Optional values: None is the empty tuple, a value v is <<v>>
None == <<>>

Some(v) == <<v>>

Get(opt) == opt[1]

-----------------------------------------------------------------------------
(* Small helpers                                                           *)

Abs(v) == IF v < 0 THEN -v ELSE v

Min2(a, b) == IF a < b THEN a ELSE b

Max2(a, b) == IF a > b THEN a ELSE b

SetMin(S) == CHOOSE v \in S : \A u \in S : v <= u

SetMax(S) == CHOOSE v \in S : \A u \in S : v >= u

\* math.floor(a / b) and math.ceil(a / b) for b > 0
Floor(a, b) == a \div b

Ceil(a, b) == -((-a) \div b)

RECURSIVE GCD(_, _)
GCD(a, b) == IF b = 0 THEN a ELSE GCD(b, a % b)

RECURSIVE SumSeq(_)
SumSeq(s) == IF s = <<>> THEN 0 ELSE Head(s) + SumSeq(Tail(s))

\* math.hypot on the grid: the integer square root of dx^2 + dy^2 (exact on
\* axis-aligned and Pythagorean segments, rounded down otherwise)
Hypot(dx, dy) ==
    LET q == dx * dx + dy * dy
    IN  CHOOSE r \in 0..(Abs(dx) + Abs(dy)) : r * r <= q /\ (r + 1) * (r + 1) > q

-----------------------------------------------------------------------------
(* core/model.py                                                           *)

\* (mutation of shoelace_area: the sum keeps its sign)
shoelace_area_Signed(points) ==
    LET n == Len(points)
        term(i) == points[i][1] * points[(i % n) + 1][2]
                   - points[(i % n) + 1][1] * points[i][2]
    IN  IF n < 3 THEN 0
        ELSE SumSeq([i \in 1..n |-> term(i)])

\* (mutation of shoelace_area: the edge from the last point back to the first
\* is left out of the sum)
shoelace_area_NoClosingEdge(points) ==
    LET n == Len(points)
        term(i) == points[i][1] * points[i + 1][2] - points[i + 1][1] * points[i][2]
    IN  IF n < 3 THEN 0
        ELSE Abs(SumSeq([i \in 1..(n - 1) |-> term(i)]))

\* abs(area) / 2.0 in eighths of a square pixel: the sum over half-pixel
\* coordinates is 4 * 2 * the area in square pixels
shoelace_area(points) ==
    LET n == Len(points)
        term(i) == points[i][1] * points[(i % n) + 1][2]
                   - points[(i % n) + 1][1] * points[i][2]
    IN  IF n < 3 THEN 0
        ELSE Abs(SumSeq([i \in 1..n |-> term(i)]))

polygon_perimeter(points) ==
    LET n == Len(points)
        seg(i) == Hypot(points[(i % n) + 1][1] - points[i][1],
                        points[(i % n) + 1][2] - points[i][2])
    IN  IF n < 2 THEN 0
        ELSE SumSeq([i \in 1..n |-> seg(i)])

\* (mutation of InEdgeSpan: both ends of the edge count)
InEdgeSpan_Closed(p1, p2, y) == Min2(p1[2], p2[2]) <= y /\ y <= Max2(p1[2], p2[2])

\* min(p1y, p2y) < y <= max(p1y, p2y)
InEdgeSpan(p1, p2, y) == Min2(p1[2], p2[2]) < y /\ y <= Max2(p1[2], p2[2])

\* Even-odd ray casting.  Iteration i of the loop (i = 0..n) looks at the edge
\* from p1 to p2 = polygon[i % n]; p1 is polygon[0] at i = 0 and the previous
\* p2 afterwards.  "inside" ends up TRUE iff an odd number of iterations toggle.
\* x <= xinters is compared exactly, by cross-multiplying with p2y - p1y.
point_in_polygon(pt, polygon) ==
    LET x == pt[1]
        y == pt[2]
        n == Len(polygon)
        P1(i) == IF i = 0 THEN polygon[1] ELSE polygon[((i - 1) % n) + 1]
        P2(i) == polygon[(i % n) + 1]
        XLeXinters(p1, p2) ==
            LET dy == p2[2] - p1[2]
                dx == p2[1] - p1[1]
            IN  IF dy > 0 THEN (x - p1[1]) * dy <= (y - p1[2]) * dx
                ELSE (x - p1[1]) * dy >= (y - p1[2]) * dx
        Toggles(i) ==
            LET p1 == P1(i)
                p2 == P2(i)
            IN  /\ InEdgeSpan(p1, p2, y)
                /\ x <= Max2(p1[1], p2[1])
                /\ (p1[1] = p2[1] \/ XLeXinters(p1, p2))
    IN  IF n < 3 THEN FALSE
        ELSE Cardinality({i \in 0..n : Toggles(i)}) % 2 = 1

\* PolygonData with compute_metrics() applied
PolygonData(points) ==
    [points |-> points,
     area_px |-> shoelace_area(points),
     perimeter_px |-> polygon_perimeter(points)]

-----------------------------------------------------------------------------
(* features/panels/panels.py: the tile classifier                          *)

samples == 8

_rect_corners(x, y, w, h) ==
    << <<x, y>>, <<x + w, y>>, <<x + w, y + h>>, <<x, y + h>> >>

_point_in_rect(pt, rect) ==
    /\ rect[1][1] <= pt[1] /\ pt[1] <= rect[3][1]
    /\ rect[1][2] <= pt[2] /\ pt[2] <= rect[3][2]

orientation(p, q, r) ==
    LET val == (q[2] - p[2]) * (r[1] - q[1]) - (q[1] - p[1]) * (r[2] - q[2])
    IN  IF val = 0 THEN 0 ELSE IF val > 0 THEN 1 ELSE 2

on_segment(p, q, r) ==
    /\ Min2(p[1], r[1]) <= q[1] /\ q[1] <= Max2(p[1], r[1])
    /\ Min2(p[2], r[2]) <= q[2] /\ q[2] <= Max2(p[2], r[2])

_segments_intersect(a1, a2, b1, b2) ==
    LET o1 == orientation(a1, a2, b1)
        o2 == orientation(a1, a2, b2)
        o3 == orientation(b1, b2, a1)
        o4 == orientation(b1, b2, a2)
    IN  \/ (o1 # o2 /\ o3 # o4)
        \/ (o1 = 0 /\ on_segment(a1, b1, a2))
        \/ (o2 = 0 /\ on_segment(a1, b2, a2))
        \/ (o3 = 0 /\ on_segment(b1, a1, b2))
        \/ (o4 = 0 /\ on_segment(b1, a2, b2))

\* (mutation of _rect_polygon_overlap: the edge-crossing test is left out)
_rect_polygon_overlap_NoEdges(rect, polygon) ==
    \/ \E i \in 1..Len(polygon) : _point_in_rect(polygon[i], rect)
    \/ \E c \in 1..4 : point_in_polygon(rect[c], polygon)

_rect_polygon_overlap(rect, polygon) ==
    LET n == Len(polygon)
    IN  \/ \E i \in 1..n : _point_in_rect(polygon[i], rect)
        \/ \E c \in 1..4 : point_in_polygon(rect[c], polygon)
        \/ \E e \in 1..4 : \E i \in 1..n :
              _segments_intersect(rect[e], rect[(e % 4) + 1],
                                  polygon[i], polygon[(i % n) + 1])

\* The sample point (i, j) of the rectangle is x0 + (i + 0.5) * width / samples:
\* both it and the polygon are scaled by 2 * samples so that it stays integral.
SamplePoint(rect, i, j) ==
    LET width == rect[3][1] - rect[1][1]
        height == rect[3][2] - rect[1][2]
    IN  << 2 * samples * rect[1][1] + (2 * i + 1) * width,
           2 * samples * rect[1][2] + (2 * j + 1) * height >>

ScalePoints(points, k) == [i \in 1..Len(points) |-> <<k * points[i][1], k * points[i][2]>>]

\* (mutation of _estimate_overlap_fraction: the samples sit on the sub-cell
\* corners, (samples + 1) * (samples + 1) of them, instead of the centres)
_estimate_overlap_fraction_CornerSamples(rect, polygon) ==
    LET big == ScalePoints(polygon, 2 * samples)
    IN  Cardinality({ij \in (0..samples) \X (0..samples) :
                        point_in_polygon(
                            << 2 * samples * rect[1][1] + 2 * ij[1] * (rect[3][1] - rect[1][1]),
                               2 * samples * rect[1][2] + 2 * ij[2] * (rect[3][2] - rect[1][2]) >>,
                            big)})

\* Number of the samples * samples sub-cell centres inside the polygon: the
\* overlap fraction is this count over 64.
_estimate_overlap_fraction(rect, polygon) ==
    LET big == ScalePoints(polygon, 2 * samples)
    IN  Cardinality({ij \in (0..(samples - 1)) \X (0..(samples - 1)) :
                        point_in_polygon(SamplePoint(rect, ij[1], ij[2]), big)})

\* <<kind, overlap>>, overlap in 64ths (1.0 is samples * samples)
_classify_tile(rect, polygon) ==
    IF \A c \in 1..4 : point_in_polygon(rect[c], polygon)
    THEN <<"full", samples * samples>>
    ELSE IF ~_rect_polygon_overlap(rect, polygon)
    THEN <<"excluded", 0>>
    ELSE LET Estimated(overlap_fraction) ==
                 IF overlap_fraction <= 0 THEN <<"excluded", 0>>
                 ELSE <<"partial", overlap_fraction>>
         IN  Estimated(_estimate_overlap_fraction(rect, polygon))

-----------------------------------------------------------------------------
(* features/panels/panels.py: layouts and the optimiser                    *)

\* One grid of panel_w_px x panel_h_px tiles anchored at (offset_x, offset_y),
\* columns outermost, rows innermost; excluded tiles are not listed.
_generate_layout(poly_pts, panel_w_px, panel_h_px, offset_x, offset_y) ==
    LET xs == {poly_pts[i][1] : i \in 1..Len(poly_pts)}
        ys == {poly_pts[i][2] : i \in 1..Len(poly_pts)}
        col_start == Floor(SetMin(xs) - offset_x, panel_w_px)
        col_end == Ceil(SetMax(xs) - offset_x, panel_w_px)
        row_start == Floor(SetMin(ys) - offset_y, panel_h_px)
        row_end == Ceil(SetMax(ys) - offset_y, panel_h_px)
        ncols == col_end - col_start
        nrows == row_end - row_start
        tile(rect, kind) ==
            IF kind[1] = "full"
            THEN [points |-> rect, type |-> "full"]
            ELSE [points |-> rect, type |-> kind[1], overlap |-> kind[2]]
        classified(rect) == tile(rect, _classify_tile(rect, poly_pts))
        cell(k) ==
            classified(_rect_corners(
                (col_start + ((k - 1) \div nrows)) * panel_w_px + offset_x,
                (row_start + ((k - 1) % nrows)) * panel_h_px + offset_y,
                panel_w_px, panel_h_px))
        counted(tiles, partial) ==
            [tiles |-> tiles,
             full_count |-> Len(SelectSeq(tiles, LAMBDA t : t.type = "full")),
             partial_count |-> Len(partial),
             partial_overlaps |-> [k \in 1..Len(partial) |-> partial[k].overlap]]
        listed(tiles) == counted(tiles, SelectSeq(tiles, LAMBDA t : t.type = "partial"))
    IN  listed(SelectSeq([k \in 1..(ncols * nrows) |-> cell(k)],
                         LAMBDA t : t.type # "excluded"))

EpsilonInverse == 1000000000

\* panel_real / scale_factor <= EPSILON, for scale_factor > 0, decided exactly
PixelSizeTooSmall(panel_real, sf) == panel_real <= sf \div EpsilonInverse

\* panel_real / scale_factor in half pixels
ToPixels(panel_real, sf) == (2 * panel_real) \div sf

\* The four grid origins of optimize_panels, in the order tried
offsets(panel_w_px, panel_h_px) ==
    << <<0, 0>>,
       <<panel_w_px \div 2, 0>>,
       <<0, panel_h_px \div 2>>,
       <<panel_w_px \div 2, panel_h_px \div 2>> >>

\* waste_pct = 100 * tile_area_real * sum(1 - frac) / (area_px * scale_factor^2)
\* as an exact fraction <<num, den>>: sum(1 - frac) is sum(64 - k) / 64 and
\* area_px counts eighths of a square pixel, so the value is
\* (100 * 8 * tile_area_real * sum(64 - k)) / (64 * area_px * scale_factor^2),
\* written here in lowest terms.  0.0 is <<0, 1>>.
WastePct(partial_overlaps, panel_w_real, panel_h_real, area_px, sf) ==
    LET tile_area_real == panel_w_real * panel_h_real
        lost == SumSeq([k \in 1..Len(partial_overlaps) |->
                           samples * samples - partial_overlaps[k]])
        polygon_area_real8 == area_px * sf * sf
        lowest(num, den) == <<num \div GCD(num, den), den \div GCD(num, den)>>
    IN  IF polygon_area_real8 > 0
        THEN lowest(25 * tile_area_real * lost, 2 * polygon_area_real8)
        ELSE <<0, 1>>

WasteLess(a, b) == a[1] * b[2] < b[1] * a[2]

WasteEqual(a, b) == a[1] * b[2] = b[1] * a[2]

\* metric = (-full_count, partial_count, waste_pct)
Metric(layout) == <<-layout.full_count, layout.partial_count, layout.waste_pct>>

\* Python's tuple comparison metric < best_metric
MetricLess(m, b) ==
    \/ m[1] < b[1]
    \/ m[1] = b[1] /\ m[2] < b[2]
    \/ m[1] = b[1] /\ m[2] = b[2] /\ WasteLess(m[3], b[3])

\* The layout of origin i with its waste_pct (the loop body of optimize_panels)
OriginLayout(poly, panel_w_real, panel_h_real, sf, i) ==
    LET panel_w_px == ToPixels(panel_w_real, sf)
        panel_h_px == ToPixels(panel_h_real, sf)
        off == offsets(panel_w_px, panel_h_px)[i]
        measured(layout) ==
            [tiles |-> layout.tiles,
             full_count |-> layout.full_count,
             partial_count |-> layout.partial_count,
             partial_overlaps |-> layout.partial_overlaps,
             waste_pct |-> WastePct(layout.partial_overlaps, panel_w_real, panel_h_real,
                                    poly.area_px, sf)]
    IN  measured(_generate_layout(poly.points, panel_w_px, panel_h_px, off[1], off[2]))

\* (mutation of KeepBest: "<=" for "<", so the last of several equal layouts wins)
KeepBest_LastOnTies(best_layout, layout) ==
    IF layout.full_count = 0 /\ layout.partial_count = 0 THEN best_layout
    ELSE IF best_layout = None \/ ~MetricLess(Metric(Get(best_layout)), Metric(layout))
    THEN Some(layout)
    ELSE best_layout

\* One iteration of the search loop: origins without tiles are skipped, and a
\* layout replaces the best so far only when its metric is strictly smaller.
KeepBest(best_layout, layout) ==
    IF layout.full_count = 0 /\ layout.partial_count = 0 THEN best_layout
    ELSE IF best_layout = None \/ MetricLess(Metric(layout), Metric(Get(best_layout)))
    THEN Some(layout)
    ELSE best_layout

\* best_layout after the loop over the four origins: None or Some(layout)
BestLayout(poly, panel_w_real, panel_h_real, sf) ==
    LET L(i) == OriginLayout(poly, panel_w_real, panel_h_real, sf, i)
    IN  KeepBest(KeepBest(KeepBest(KeepBest(None, L(1)), L(2)), L(3)), L(4))

-----------------------------------------------------------------------------
(* features/editing/straighten.py                                          *)

\* (mutation of Reclosed: the closing point is not put back)
Reclosed_Never(mapped, closed) == mapped

\* "if closed: mapped.append(mapped[0])"
Reclosed(mapped, closed) == IF closed THEN Append(mapped, mapped[1]) ELSE mapped

\* Project the vertices onto the bounding rectangle by arc-length fraction.
\* dist = (seg_lengths[idx] / total) * perim_rect, rounded down to the grid.
_rectangle_map(points) ==
    LET closed == points[1] = points[Len(points)]
        pts == IF closed THEN SubSeq(points, 1, Len(points) - 1) ELSE points
        n == Len(pts)
        xs == {pts[i][1] : i \in 1..n}
        ys == {pts[i][2] : i \in 1..n}
        min_x == SetMin(xs)
        max_x == SetMax(xs)
        min_y == SetMin(ys)
        max_y == SetMax(ys)
        width == max_x - min_x
        height == max_y - min_y
        perim_rect == 2 * (width + height)
        seg(i) == Hypot(pts[(i % n) + 1][1] - pts[i][1], pts[(i % n) + 1][2] - pts[i][2])
        \* seg_lengths[idx] for the 0-based idx = k - 1
        seg_lengths(k) == SumSeq([i \in 1..(k - 1) |-> seg(i)])
        total == seg_lengths(n + 1)
        map(k) ==
            LET dist == (seg_lengths(k) * perim_rect) \div total
                dist_mod == dist % perim_rect
            IN  IF dist_mod <= width
                THEN <<min_x + dist_mod, min_y>>
                ELSE IF dist_mod <= width + height
                THEN <<max_x, min_y + (dist_mod - width)>>
                ELSE IF dist_mod <= 2 * width + height
                THEN <<max_x - (dist_mod - (width + height)), max_y>>
                ELSE <<min_x, max_y - (dist_mod - (2 * width + height))>>
        mapped == [k \in 1..n |-> map(k)]
    IN  IF Len(points) < 4 THEN points
        ELSE IF n < 4 THEN points
        ELSE IF width <= 0 \/ height <= 0 THEN points
        ELSE IF total <= 0 THEN points
        ELSE Reclosed(mapped, closed)

_compute_straightened_points(pts) == _rectangle_map(pts)

\* The list without its last point when that repeats the first
OpenPoints(points) ==
    IF Len(points) >= 2 /\ points[1] = points[Len(points)]
    THEN SubSeq(points, 1, Len(points) - 1) ELSE points

-----------------------------------------------------------------------------
(* Bounds and inputs                                                       *)

\* At most this many polygons are drawn
MaxPolygons == 2

\* Outlines the user draws, vertex by vertex (half pixels): a hand-drawn,
\* roughly rectangular room and a triangle
DrawShapes ==
    { << <<0, 0>>, <<24, 2>>, <<24, 22>>, <<2, 22>> >>,
      << <<0, 0>>, <<8, 0>>, <<0, 6>> >> }

IsPrefix(s, t) == Len(s) <= Len(t) /\ s = SubSeq(t, 1, Len(s))

\* Where the next click of a drawing lands: on the next vertex of an outline
\* being followed, or back on the first point once an outline is complete
DrawClicks(cur) ==
    {sh[Len(cur) + 1] : sh \in {t \in DrawShapes : IsPrefix(cur, t) /\ Len(cur) < Len(t)}}
    \cup (IF cur \in DrawShapes THEN {cur[1]} ELSE {})

\* Clicks outside draw mode (half pixels): inside the outlines, and far away
SelectClicks == { <<2, 2>>, <<200, 200>> }

\* The page image is 40 x 40 pixels (width and height in half pixels)
PageSize == <<80, 80>>

\* The zoom level stays within this many steps of ZOOM_STEP from 1.0
MaxZoom == 1

\* Where button 1 goes down for a drag (half pixels): on the corner the
\* outlines start from, and far from every vertex
DragStarts == { <<0, 0>>, <<200, 200>> }

\* Where the pointer is dragged to (half pixels): next to the line between the
\* neighbours of the first corner of the room, and away from it
DragMoves == { <<12, 13>>, <<4, -2>> }

-----------------------------------------------------------------------------
(* The application                                                         *)

CLOSE_THRESHOLD_PX == 10

RECURSIVE Power(_, _)
Power(b, e) == IF e = 0 THEN 1 ELSE b * Power(b, e - 1)

\* ZOOM_STEP = 1.25
ZOOM_STEP == <<5, 4>>

\* The zoom factor ZOOM_STEP ** n as a fraction <<numerator, denominator>>
Zoom(n) ==
    IF n >= 0 THEN <<Power(ZOOM_STEP[1], n), Power(ZOOM_STEP[2], n)>>
    ELSE <<Power(ZOOM_STEP[2], -n), Power(ZOOM_STEP[1], -n)>>

\* A length of d half pixels on the image covers at most limit canvas pixels
WithinCanvasPx(d, limit, n) == d * Zoom(n)[1] <= 2 * limit * Zoom(n)[2]

\* No undo backup is held
NoBackups ==
    [straighten |-> None, vertex_move_stale |-> FALSE,
     rotation_run |-> <<>>, rotation_start |-> <<>>]

Init ==
    /\ image = FALSE
    /\ polygons = <<>>
    /\ current_polygon = <<>>
    /\ draw_mode = FALSE
    /\ selected_polygon = None
    /\ scale_factor = 1
    /\ config = [panel_width |-> 1, panel_height |-> 1]
    /\ panel_tiles_overlay = None
    /\ _straighten_backup = None
    /\ zoom_level = 0
    /\ image_rotation = 0
    /\ dragging = FALSE
    /\ drag_point_index = None
    /\ _vertex_move_backup = None
    /\ scale_mode = FALSE
    /\ scale_points = <<>>
    /\ scale_unit = None
    /\ scale_artifact = None
    /\ session_ops = 0
    /\ provenance = NoBackups
    /\ last_op = [op |-> "init", message |-> None]
    /\ fn_args = None
    /\ fn_result = None

\* file_io.load_pdf with a page chosen and rendered
\* (mutation of SelectionAfterLoad: the selection survives the load)
SelectionAfterLoad_Kept == selected_polygon

\* app.selected_polygon = None
SelectionAfterLoad == None

load_pdf ==
    /\ ~dragging
    /\ image' = TRUE
    /\ image_rotation' = 0
    /\ zoom_level' = 0
    /\ polygons' = <<>>
    /\ current_polygon' = <<>>
    /\ scale_points' = <<>>
    /\ scale_artifact' = None
    /\ scale_factor' = 1
    /\ scale_unit' = Some("units")
    /\ selected_polygon' = SelectionAfterLoad
    /\ draw_mode' = FALSE
    /\ scale_mode' = FALSE
    /\ _straighten_backup' = None
    /\ last_op' = [op |-> "load_pdf", message |-> None]
    /\ UNCHANGED <<config, panel_tiles_overlay, fn_args, fn_result,
                   dragging, drag_point_index, _vertex_move_backup>>

\* file_io.load_config with a file holding cfg
load_config(cfg) ==
    /\ config' = [panel_width |-> cfg.panel_width, panel_height |-> cfg.panel_height]
    /\ last_op' = [op |-> "load_config",
                   message |-> Some(<<"showinfo", "Configuration loaded.">>)]
    /\ UNCHANGED <<image, polygons, current_polygon, draw_mode, selected_polygon,
                   scale_factor, panel_tiles_overlay, _straighten_backup,
                   fn_args, fn_result,
                   zoom_level, image_rotation, dragging, drag_point_index,
                   _vertex_move_backup, scale_mode, scale_points, scale_unit, scale_artifact>>

set_draw_mode ==
    /\ ~dragging
    /\ Len(polygons) < MaxPolygons
    /\ IF ~image
       THEN /\ last_op' = [op |-> "set_draw_mode",
                           message |-> Some(<<"showwarning", "Load a PDF first.">>)]
            /\ UNCHANGED <<draw_mode, scale_mode, current_polygon>>
       ELSE /\ draw_mode' = TRUE
            /\ scale_mode' = FALSE
            /\ current_polygon' = <<>>
            /\ last_op' = [op |-> "set_draw_mode",
                           message |-> Some(<<"showinfo", "Draw Polygon">>)]
    /\ UNCHANGED <<image, polygons, selected_polygon, scale_factor, config,
                   panel_tiles_overlay, _straighten_backup, fn_args, fn_result,
                   zoom_level, image_rotation, dragging, drag_point_index,
                   _vertex_move_backup, scale_points, scale_unit, scale_artifact>>

\* (mutation of StoredAfterFinish: the new polygon goes to the front of the list)
StoredAfterFinish_InFront(polys, poly) == <<poly>> \o polys

\* (mutation of StoredAfterFinish: the last point placed is taken for the
\* closing click and left out of the stored polygon)
StoredAfterFinish_WithoutLast(polys, poly) ==
    Append(polys, PolygonData(SubSeq(poly.points, 1, Len(poly.points) - 1)))

\* app.polygons.append(poly)
StoredAfterFinish(polys, poly) == Append(polys, poly)

\* draw.finish_polygon, as a step of the action that calls it
finish_polygon ==
    IF Len(current_polygon) < 3
    THEN /\ current_polygon' = <<>>
         /\ draw_mode' = FALSE
         /\ UNCHANGED <<polygons, selected_polygon>>
    ELSE /\ polygons' = StoredAfterFinish(polygons, PolygonData(current_polygon))
         /\ current_polygon' = <<>>
         /\ draw_mode' = FALSE
         /\ selected_polygon' = Some(Len(polygons))

\* draw.draw_on_canvas_click: pt is the click in half pixels of the image
draw_on_canvas_click(pt) ==
    LET dist == IF current_polygon = <<>> THEN 0
                ELSE Hypot(pt[1] - current_polygon[1][1], pt[2] - current_polygon[1][2])
        closing == /\ current_polygon # <<>>
                   /\ WithinCanvasPx(dist, CLOSE_THRESHOLD_PX, zoom_level)
                   /\ Len(current_polygon) >= 3
    IN  /\ ~dragging
        /\ draw_mode
        /\ IF closing
           THEN finish_polygon
           ELSE /\ current_polygon' = Append(current_polygon, pt)
                /\ UNCHANGED <<polygons, draw_mode, selected_polygon>>
        /\ last_op' = [op |-> "draw_on_canvas_click", message |-> None]
        /\ UNCHANGED <<image, scale_factor, config, panel_tiles_overlay,
                       _straighten_backup, fn_args, fn_result,
                       zoom_level, image_rotation, dragging, drag_point_index,
                       _vertex_move_backup, scale_mode, scale_points, scale_unit, scale_artifact>>

\* The first polygon containing the point, or None (gui_client.on_canvas_click)
FirstPolygonAt(point) ==
    LET hits == {i \in 1..Len(polygons) : point_in_polygon(point, polygons[i].points)}
    IN  IF hits = {} THEN None ELSE Some(SetMin(hits) - 1)

\* MeasureAppGUI.on_canvas_click outside scale and draw mode: selection
on_canvas_click(point) ==
    /\ ~dragging
    /\ image
    /\ ~scale_mode
    /\ ~draw_mode
    /\ selected_polygon' = FirstPolygonAt(point)
    /\ last_op' = [op |-> "on_canvas_click", message |-> None]
    /\ UNCHANGED <<image, polygons, current_polygon, draw_mode, scale_factor, config,
                   panel_tiles_overlay, _straighten_backup, fn_args, fn_result,
                   zoom_level, image_rotation, dragging, drag_point_index,
                   _vertex_move_backup, scale_mode, scale_points, scale_unit, scale_artifact>>

\* The guards of optimize_panels, in the order tested: the warning shown by
\* the first one that fails, or None when the search runs
OptimizeWarning ==
    IF selected_polygon = None
    THEN Some("Select a polygon first.")
    ELSE IF scale_factor <= 0
    THEN Some("Set a valid scale before optimising panels.")
    ELSE IF config.panel_width <= 0 \/ config.panel_height <= 0
    THEN Some("Panel dimensions must be greater than zero.")
    ELSE IF \/ PixelSizeTooSmall(config.panel_width, scale_factor)
            \/ PixelSizeTooSmall(config.panel_height, scale_factor)
    THEN Some("Panel dimensions are too small for the current scale.")
    ELSE None

\* (mutation of StoredLayout: the new result is merged into the stored layout,
\* whose polygon_index survives)
StoredLayout_Merged(best_layout) ==
    [polygon_index |-> IF panel_tiles_overlay = None THEN Get(selected_polygon)
                       ELSE Get(panel_tiles_overlay).polygon_index,
     tiles |-> best_layout.tiles,
     full_count |-> best_layout.full_count,
     partial_count |-> best_layout.partial_count,
     waste_pct |-> best_layout.waste_pct]

\* (mutation of StoredLayout: the tiles are added to those already stored)
StoredLayout_Accumulates(best_layout) ==
    [polygon_index |-> Get(selected_polygon),
     tiles |-> (IF panel_tiles_overlay = None THEN <<>>
                ELSE Get(panel_tiles_overlay).tiles) \o best_layout.tiles,
     full_count |-> best_layout.full_count,
     partial_count |-> best_layout.partial_count,
     waste_pct |-> best_layout.waste_pct]

\* What optimize_panels stores for the winning layout
StoredLayout(best_layout) ==
    [polygon_index |-> Get(selected_polygon),
     tiles |-> best_layout.tiles,
     full_count |-> best_layout.full_count,
     partial_count |-> best_layout.partial_count,
     waste_pct |-> best_layout.waste_pct]

\* (mutation of OverlayAfterOptimize: a failed guard clears the stored layout)
OverlayAfterOptimize_ClearsOnWarning(previous, warning, best_layout) ==
    IF warning # None \/ best_layout = None THEN None
    ELSE Some(StoredLayout(Get(best_layout)))

\* (mutation of OverlayAfterOptimize: a search without tiles keeps the stored layout)
OverlayAfterOptimize_KeepsOnNoTiles(previous, warning, best_layout) ==
    IF warning # None \/ best_layout = None THEN previous
    ELSE Some(StoredLayout(Get(best_layout)))

\* app.panel_tiles_overlay when optimize_panels returns: untouched when a guard
\* fails, cleared when no origin places a tile, else the winning layout
OverlayAfterOptimize(previous, warning, best_layout) ==
    IF warning # None THEN previous
    ELSE IF best_layout = None THEN None
    ELSE Some(StoredLayout(Get(best_layout)))

\* The message box optimize_panels shows (success only writes the status bar)
OptimizeMessage(warning, best_layout) ==
    IF warning # None THEN Some(<<"showwarning", Get(warning)>>)
    ELSE IF best_layout = None
    THEN Some(<<"showinfo", "No tiles could be placed for the selected polygon.">>)
    ELSE None

optimize_panels ==
    \E warning \in {OptimizeWarning} :
    \E best_layout \in {IF warning # None THEN None
                         ELSE BestLayout(polygons[Get(selected_polygon) + 1],
                                         config.panel_width, config.panel_height,
                                         scale_factor)} :
        /\ ~dragging
        /\ panel_tiles_overlay' =
               OverlayAfterOptimize(panel_tiles_overlay, warning, best_layout)
        /\ last_op' = [op |-> "optimize_panels",
                       message |-> OptimizeMessage(warning, best_layout),
                       previous |-> panel_tiles_overlay,
                       repeated |-> last_op.op = "optimize_panels"]
        /\ UNCHANGED <<image, polygons, current_polygon, draw_mode, selected_polygon,
                       scale_factor, config, _straighten_backup, fn_args, fn_result,
                       zoom_level, image_rotation, dragging, drag_point_index,
                       _vertex_move_backup, scale_mode, scale_points, scale_unit, scale_artifact>>

\* (mutation of StraightenBackup: the backup is taken after the points are replaced)
StraightenBackup_AfterReplace(poly, proposed) == proposed

\* (mutation of StraightenBackup: a backup already held is not overwritten)
StraightenBackup_KeepsFirst(poly, proposed) ==
    IF _straighten_backup # None THEN Get(_straighten_backup) ELSE poly.points

\* What straighten_polygon keeps for undo
StraightenBackup(poly, proposed) == poly.points

\* (mutation of StraightenChanges: the proposal always counts as a change)
StraightenChanges_Always(poly, proposed) == TRUE

\* The proposal differs from the polygon's points: "if proposed == poly.points: return"
StraightenChanges(poly, proposed) == proposed # poly.points

straighten_polygon ==
    /\ ~dragging
    /\ IF selected_polygon = None
       THEN /\ last_op' = [op |-> "straighten_polygon", changed |-> FALSE,
                           message |-> Some(<<"showwarning", "Select a polygon first.">>)]
            /\ UNCHANGED <<polygons, _straighten_backup>>
       ELSE LET index == Get(selected_polygon)
                poly == polygons[index + 1]
                proposed == _compute_straightened_points(poly.points)
            IN  IF Len(poly.points) < 3
                THEN /\ last_op' =
                          [op |-> "straighten_polygon", changed |-> FALSE,
                           message |-> Some(<<"showwarning",
                                              "Polygon must have at least 3 points.">>)]
                     /\ UNCHANGED <<polygons, _straighten_backup>>
                ELSE IF ~StraightenChanges(poly, proposed)
                THEN /\ last_op' = [op |-> "straighten_polygon", changed |-> FALSE,
                                    message |-> None]
                     /\ UNCHANGED <<polygons, _straighten_backup>>
                ELSE /\ _straighten_backup' = Some(StraightenBackup(poly, proposed))
                     /\ polygons' = [polygons EXCEPT ![index + 1] =
                                        [@ EXCEPT !.points = proposed,
                                                  !.area_px = shoelace_area(proposed),
                                                  !.perimeter_px = polygon_perimeter(proposed)]]
                     /\ last_op' = [op |-> "straighten_polygon", changed |-> TRUE,
                                    message |-> None,
                                    index |-> index, before |-> poly.points,
                                    repeated |-> /\ last_op.op = "straighten_polygon"
                                                 /\ last_op.changed]
    /\ UNCHANGED <<image, current_polygon, draw_mode, selected_polygon, scale_factor,
                   config, panel_tiles_overlay, fn_args, fn_result,
                   zoom_level, image_rotation, dragging, drag_point_index,
                   _vertex_move_backup, scale_mode, scale_points, scale_unit, scale_artifact>>

\* The point list undo_straighten puts back
UndoPoints(poly, backup) == backup

undo_straighten ==
    /\ ~dragging
    /\ IF selected_polygon = None \/ _straighten_backup = None
       THEN /\ last_op' = [op |-> "undo_straighten",
                           message |-> Some(<<"showwarning",
                                              "No straighten operation to undo.">>)]
            /\ UNCHANGED <<polygons, _straighten_backup>>
       ELSE LET index == Get(selected_polygon)
                points == UndoPoints(polygons[index + 1], Get(_straighten_backup))
            IN  /\ polygons' = [polygons EXCEPT ![index + 1] =
                                   [@ EXCEPT !.points = points,
                                             !.area_px = shoelace_area(points),
                                             !.perimeter_px = polygon_perimeter(points)]]
                /\ _straighten_backup' = None
                /\ last_op' = [op |-> "undo_straighten", message |-> None,
                               index |-> index,
                               taken_from |-> provenance.straighten,
                               after_repeated |-> /\ last_op.op = "straighten_polygon"
                                                  /\ last_op.changed
                                                  /\ last_op.repeated]
    /\ UNCHANGED <<image, current_polygon, draw_mode, selected_polygon, scale_factor,
                   config, panel_tiles_overlay, fn_args, fn_result,
                   zoom_level, image_rotation, dragging, drag_point_index,
                   _vertex_move_backup, scale_mode, scale_points, scale_unit, scale_artifact>>

-----------------------------------------------------------------------------
(* features/navigation/zoom.py                                             *)

\* zoom.set_zoom(app, zoom_level * ZOOM_STEP), away from the clamp at ZOOM_MAX
zoom_in ==
    /\ ~dragging
    /\ image
    /\ zoom_level < MaxZoom
    /\ zoom_level' = zoom_level + 1
    /\ last_op' = [op |-> "zoom_in", message |-> None]
    /\ UNCHANGED <<image, polygons, current_polygon, draw_mode, selected_polygon,
                   scale_factor, config, panel_tiles_overlay, _straighten_backup,
                   image_rotation, dragging, drag_point_index, _vertex_move_backup,
                   scale_mode, scale_points, scale_unit, scale_artifact,
                   fn_args, fn_result>>

\* zoom.set_zoom(app, zoom_level / ZOOM_STEP), away from the clamp at ZOOM_MIN
zoom_out ==
    /\ ~dragging
    /\ image
    /\ zoom_level > -MaxZoom
    /\ zoom_level' = zoom_level - 1
    /\ last_op' = [op |-> "zoom_out", message |-> None]
    /\ UNCHANGED <<image, polygons, current_polygon, draw_mode, selected_polygon,
                   scale_factor, config, panel_tiles_overlay, _straighten_backup,
                   image_rotation, dragging, drag_point_index, _vertex_move_backup,
                   scale_mode, scale_points, scale_unit, scale_artifact,
                   fn_args, fn_result>>

-----------------------------------------------------------------------------
(* features/navigation/rotate.py                                           *)

\* rotate_point: px, py turned by angle (a multiple of 90 degrees) about the
\* centre of the width x height page; the cosines and sines are 0, 1 and -1
rotate_point(px, py, width, height, angle) ==
    LET cx == width \div 2
        cy == height \div 2
        dx == px - cx
        dy == py - cy
        cos == CASE angle = 0 -> 1 [] angle = 90 -> 0 [] angle = 180 -> -1 [] angle = 270 -> 0
        sin == CASE angle = 0 -> 0 [] angle = 90 -> 1 [] angle = 180 -> 0 [] angle = 270 -> -1
    IN  <<dx * cos - dy * sin + cx, dx * sin + dy * cos + cy>>

\* The size of image.rotate(-angle, expand=True)
RotatedSize(angle) ==
    IF angle = 90 \/ angle = 270 THEN <<PageSize[2], PageSize[1]>> ELSE PageSize

\* The list comprehensions of apply_rotation: every point turned by the angle
\* about the page centre and shifted by the offset of the expanded image
RotatedPoints(points, angle) ==
    LET w == PageSize[1]
        h == PageSize[2]
        offset_x == (RotatedSize(angle)[1] - w) \div 2
        offset_y == (RotatedSize(angle)[2] - h) \div 2
        moved(pt) == LET r == rotate_point(pt[1], pt[2], w, h, angle)
                     IN  <<r[1] + offset_x, r[2] + offset_y>>
    IN  [i \in 1..Len(points) |-> moved(points[i])]

\* A polygon after apply_rotation: transformed points, compute_metrics()
RotatedPolygon(poly, angle) == PolygonData(RotatedPoints(poly.points, angle))

\* rotate.apply_rotation with app.image_rotation already set to angle
apply_rotation(angle) ==
    IF angle # 0
    THEN /\ polygons' = [i \in 1..Len(polygons) |-> RotatedPolygon(polygons[i], angle)]
         /\ current_polygon' = RotatedPoints(current_polygon, angle)
         /\ scale_points' = RotatedPoints(scale_points, angle)
         /\ scale_artifact' =
                IF scale_artifact = None THEN None
                ELSE Some([Get(scale_artifact) EXCEPT
                               !.points = RotatedPoints(@, angle)])
    ELSE UNCHANGED <<polygons, current_polygon, scale_points, scale_artifact>>

rotate_left ==
    /\ ~dragging
    /\ image
    /\ image_rotation' = (image_rotation - 90) % 360
    /\ apply_rotation((image_rotation - 90) % 360)
    /\ last_op' = [op |-> "rotate_left", message |-> None]
    /\ UNCHANGED <<image, draw_mode, selected_polygon, scale_factor, config,
                   panel_tiles_overlay, _straighten_backup, zoom_level, dragging,
                   drag_point_index, _vertex_move_backup, scale_mode, scale_unit,
                   fn_args, fn_result>>

rotate_right ==
    /\ ~dragging
    /\ image
    /\ image_rotation' = (image_rotation + 90) % 360
    /\ apply_rotation((image_rotation + 90) % 360)
    /\ last_op' = [op |-> "rotate_right", message |-> None]
    /\ UNCHANGED <<image, draw_mode, selected_polygon, scale_factor, config,
                   panel_tiles_overlay, _straighten_backup, zoom_level, dragging,
                   drag_point_index, _vertex_move_backup, scale_mode, scale_unit,
                   fn_args, fn_result>>

-----------------------------------------------------------------------------
(* features/editing/drag.py                                                *)

\* A vertex is grabbed within this many canvas pixels of the pointer
VERTEX_HIT_PX == 8

\* The first vertex under the pointer, polygons in list order and vertices in
\* point order: None, or Some(<<polygon index, vertex index>>), both 0-based
FirstVertexAt(pos) ==
    LET under(pt) == /\ WithinCanvasPx(Abs(pos[1] - pt[1]), VERTEX_HIT_PX, zoom_level)
                     /\ WithinCanvasPx(Abs(pos[2] - pt[2]), VERTEX_HIT_PX, zoom_level)
        hits == {h \in UNION {{<<pidx, i>> : i \in 1..Len(polygons[pidx].points)} :
                              pidx \in 1..Len(polygons)} :
                     under(polygons[h[1]].points[h[2]])}
        first == CHOOSE h \in hits :
                     \A g \in hits : h[1] < g[1] \/ (h[1] = g[1] /\ h[2] <= g[2])
    IN  IF hits = {} THEN None ELSE Some(<<first[1] - 1, first[2] - 1>>)

\* A button press at pos (half pixels of the image) outside scale and draw mode
on_drag_start(pos) ==
    /\ ~dragging
    /\ image
    /\ ~scale_mode
    /\ ~draw_mode
    /\ LET hit == FirstVertexAt(pos)
       IN  IF hit = None
           THEN /\ last_op' = [op |-> "on_drag_start", message |-> None, hit |-> FALSE]
                /\ UNCHANGED <<selected_polygon, dragging, drag_point_index,
                               _vertex_move_backup>>
           ELSE /\ selected_polygon' = Some(Get(hit)[1])
                /\ dragging' = TRUE
                /\ drag_point_index' = Some(Get(hit)[2])
                /\ _vertex_move_backup' =
                       Some(<<Get(hit)[1], Get(hit)[2], polygons[Get(hit)[1] + 1].points>>)
                /\ last_op' = [op |-> "on_drag_start", message |-> None, hit |-> TRUE]
    /\ UNCHANGED <<image, polygons, current_polygon, draw_mode, scale_factor, config,
                   panel_tiles_overlay, _straighten_backup, zoom_level, image_rotation,
                   scale_mode, scale_points, scale_unit, scale_artifact,
                   fn_args, fn_result>>

\* tan(3 degrees) = 0.05240..., the tangent of snap_tolerance_deg, from below
TanSnapTolerance == <<131, 2500>>

\* abs(deg - 180) <= TOL_DEG or abs(deg) <= TOL_DEG for the angle deg at b
\* between a and c: atan2(det, dot) is that close to 0 or to 180 degrees
NearStraight(a, b, c) ==
    LET v1 == <<a[1] - b[1], a[2] - b[2]>>
        v2 == <<c[1] - b[1], c[2] - b[2]>>
        dot == v1[1] * v2[1] + v1[2] * v2[2]
        det == v1[1] * v2[2] - v1[2] * v2[1]
    IN  Abs(det) * TanSnapTolerance[2] <= TanSnapTolerance[1] * Abs(dot)

\* Where the dragged vertex lands: the pointer, or with Shift or Ctrl held and
\* the angle near straight, the pointer's projection onto the line through the
\* neighbours a and c (rounded down to the grid)
DropPoint(a, b, c, snap_mod_down) ==
    LET ACx == c[1] - a[1]
        ACy == c[2] - a[2]
        AC_len2 == ACx * ACx + ACy * ACy
        t_num == (b[1] - a[1]) * ACx + (b[2] - a[2]) * ACy
    IN  IF snap_mod_down /\ NearStraight(a, b, c) /\ AC_len2 > 0
        THEN <<a[1] + Floor(t_num * ACx, AC_len2), a[2] + Floor(t_num * ACy, AC_len2)>>
        ELSE b

\* (mutation of MovedVertex: the vertex is moved, the metrics are kept)
MovedVertex_StaleMetrics(poly, idx, pt) ==
    [poly EXCEPT !.points = [poly.points EXCEPT ![idx + 1] = pt]]

\* poly.points[idx] = (new_x, new_y); poly.compute_metrics()
MovedVertex(poly, idx, pt) == PolygonData([poly.points EXCEPT ![idx + 1] = pt])

\* Pointer motion to pos with button 1 held
on_drag_move(pos, snap_mod_down) ==
    /\ dragging
    /\ drag_point_index # None
    /\ LET index == Get(selected_polygon)
           poly == polygons[index + 1]
           idx == Get(drag_point_index)
           pts == poly.points
           n == Len(pts)
           prev == pts[((idx - 1) % n) + 1]
           next == pts[((idx + 1) % n) + 1]
       IN  polygons' = [polygons EXCEPT ![index + 1] =
                           MovedVertex(poly, idx, DropPoint(prev, pos, next, snap_mod_down))]
    /\ last_op' = [op |-> "on_drag_move", message |-> None]
    /\ UNCHANGED <<image, current_polygon, draw_mode, selected_polygon, scale_factor,
                   config, panel_tiles_overlay, _straighten_backup, zoom_level,
                   image_rotation, dragging, drag_point_index, _vertex_move_backup,
                   scale_mode, scale_points, scale_unit, scale_artifact,
                   fn_args, fn_result>>

\* Button 1 released
on_drag_end ==
    /\ dragging
    /\ dragging' = FALSE
    /\ drag_point_index' = None
    /\ polygons' = IF selected_polygon = None THEN polygons
                   ELSE [polygons EXCEPT ![Get(selected_polygon) + 1] = PolygonData(@.points)]
    /\ last_op' = [op |-> "on_drag_end", message |-> None]
    /\ UNCHANGED <<image, current_polygon, draw_mode, selected_polygon, scale_factor,
                   config, panel_tiles_overlay, _straighten_backup, zoom_level,
                   image_rotation, _vertex_move_backup,
                   scale_mode, scale_points, scale_unit, scale_artifact,
                   fn_args, fn_result>>

undo_last_vertex_move ==
    /\ ~dragging
    /\ IF _vertex_move_backup = None
       THEN \* the warning goes through app.messagebox, an attribute the
            \* application object does not have: nothing is shown
            /\ last_op' = [op |-> "undo_last_vertex_move", restored |-> FALSE,
                           message |-> None]
            /\ UNCHANGED <<polygons, _vertex_move_backup, selected_polygon>>
       ELSE LET poly_idx == Get(_vertex_move_backup)[1]
                pts == Get(_vertex_move_backup)[3]
            IN  IF poly_idx >= Len(polygons)
                THEN /\ last_op' = [op |-> "undo_last_vertex_move", restored |-> FALSE,
                                    message |-> None]
                     /\ UNCHANGED <<polygons, _vertex_move_backup, selected_polygon>>
                ELSE /\ polygons' = [polygons EXCEPT ![poly_idx + 1] = PolygonData(pts)]
                     /\ _vertex_move_backup' = None
                     /\ selected_polygon' = Some(poly_idx)
                     /\ last_op' = [op |-> "undo_last_vertex_move", restored |-> TRUE,
                                    index |-> poly_idx,
                                    stale |-> provenance.vertex_move_stale,
                                    message |-> None]
    /\ UNCHANGED <<image, current_polygon, draw_mode, scale_factor, config,
                   panel_tiles_overlay, _straighten_backup, zoom_level, image_rotation,
                   dragging, drag_point_index, scale_mode, scale_points, scale_unit,
                   scale_artifact, fn_args, fn_result>>

-----------------------------------------------------------------------------
(* scale.py                                                                *)

\* scale.set_scale_mode: replace is the answer to "Replace Scale?", asked when
\* a scale is already defined
set_scale_mode(replace) ==
    /\ ~dragging
    /\ IF ~image
       THEN /\ last_op' = [op |-> "set_scale_mode",
                           message |-> Some(<<"showwarning", "Load a PDF first.">>)]
            /\ UNCHANGED <<scale_mode, draw_mode, scale_points>>
       ELSE IF scale_artifact # None /\ ~replace
       THEN /\ last_op' = [op |-> "set_scale_mode", message |-> None]
            /\ UNCHANGED <<scale_mode, draw_mode, scale_points>>
       ELSE /\ scale_mode' = TRUE
            /\ draw_mode' = FALSE
            /\ scale_points' = <<>>
            /\ last_op' = [op |-> "set_scale_mode",
                           message |-> Some(<<"showinfo", "Set Unit/Scale">>)]
    /\ UNCHANGED <<image, polygons, current_polygon, selected_polygon, scale_factor,
                   config, panel_tiles_overlay, _straighten_backup, zoom_level,
                   image_rotation, dragging, drag_point_index, _vertex_move_backup,
                   scale_unit, scale_artifact, fn_args, fn_result>>

\* scale.cancel_scale_mode, bound to Escape while a scale is being set
cancel_scale_mode ==
    /\ ~dragging
    /\ scale_mode
    /\ scale_points' = <<>>
    /\ scale_mode' = FALSE
    /\ last_op' = [op |-> "cancel_scale_mode", message |-> None]
    /\ UNCHANGED <<image, polygons, current_polygon, draw_mode, selected_polygon,
                   scale_factor, config, panel_tiles_overlay, _straighten_backup,
                   zoom_level, image_rotation, dragging, drag_point_index,
                   _vertex_move_backup, scale_unit, scale_artifact, fn_args, fn_result>>

\* What scale_on_canvas_click stores for the finished scale.  real_length and
\* pixel_length are held as their quotient, the scale factor; the file path
\* and the time of creation are left out.
ScaleArtifact(points, unit, new_scale_factor) ==
    [points |-> points,
     unit |-> unit,
     scale_factor |-> new_scale_factor,
     image_rotation |-> image_rotation,
     zoom_level_at_set |-> zoom_level]

\* float(text) of the length entry: None for a ValueError.  NaN stands for the
\* float nan, which Python's float() accepts
NaN == -999999

ParseFloat(text) ==
    CASE text = "1" -> Some(1)
      [] text = "2" -> Some(2)
      [] text = "0" -> Some(0)
      [] text = "-1" -> Some(-1)
      [] text = "nan" -> Some(NaN)
      [] OTHER -> None

\* a <= b and a > b on floats: every comparison with nan is False
FloatLe(a, b) == a # NaN /\ b # NaN /\ a <= b

FloatGt(a, b) == a # NaN /\ b # NaN /\ a > b

\* UnitLengthDialog.validate: the unit is not empty, the text is a float, and
\* "length <= 0" is false
validate(unit, text) ==
    /\ unit # ""
    /\ ParseFloat(text) # None
    /\ ~FloatLe(Get(ParseFloat(text)), 0)

\* scale._prompt_scale_unit: the dialog shown with unit chosen and text typed;
\* ok is OK pressed, else Cancel.  A text that does not validate leaves the
\* dialog open, and the user then cancels.  The length is entered as a multiple
\* of the distance in pixels between the two points.
_prompt_scale_unit(unit, text, ok) ==
    IF ok /\ validate(unit, text) THEN Some(<<unit, Get(ParseFloat(text))>>) ELSE None

\* (mutation of ScaleAfterAbort: an aborted definition resets the scale)
ScaleAfterAbort_Reset(factor, unit, artifact) == <<1, Some("units"), None>>

\* scale_factor, scale_unit and scale_artifact when a scale definition is
\* aborted: none of them is assigned
ScaleAfterAbort(factor, unit, artifact) == <<factor, unit, artifact>>

\* scale.scale_on_canvas_click: pt is the click in half pixels of the image;
\* unit_len is what the unit and length dialog returns, None when it is
\* cancelled; replace is the answer to "Replace Scale?", asked when a scale is
\* already defined
scale_on_canvas_click(pt, unit_len, replace) ==
    /\ ~dragging
    /\ image
    /\ scale_mode
    /\ IF Len(scale_points) = 0
       THEN /\ scale_points' = <<pt>>
            /\ last_op' = [op |-> "scale_on_canvas_click", message |-> None,
                           result |-> "first point"]
            /\ UNCHANGED <<scale_mode, scale_factor, scale_unit, scale_artifact>>
       ELSE IF Len(scale_points) = 1
       THEN IF pt = scale_points[1]
            THEN /\ scale_points' = <<>>
                 /\ scale_factor' =
                        ScaleAfterAbort(scale_factor, scale_unit, scale_artifact)[1]
                 /\ scale_unit' =
                        ScaleAfterAbort(scale_factor, scale_unit, scale_artifact)[2]
                 /\ scale_artifact' =
                        ScaleAfterAbort(scale_factor, scale_unit, scale_artifact)[3]
                 /\ last_op' = [op |-> "scale_on_canvas_click",
                                message |-> Some(<<"showerror",
                                    "Select two distinct points to set the scale.">>),
                                result |-> "no distance"]
                 /\ UNCHANGED scale_mode
            ELSE IF unit_len = None \/ (scale_artifact # None /\ ~replace)
            THEN /\ scale_points' = <<>>
                 /\ scale_mode' = FALSE
                 /\ scale_factor' =
                        ScaleAfterAbort(scale_factor, scale_unit, scale_artifact)[1]
                 /\ scale_unit' =
                        ScaleAfterAbort(scale_factor, scale_unit, scale_artifact)[2]
                 /\ scale_artifact' =
                        ScaleAfterAbort(scale_factor, scale_unit, scale_artifact)[3]
                 /\ last_op' = [op |-> "scale_on_canvas_click", message |-> None,
                                result |-> IF unit_len = None THEN "dialog cancelled"
                                           ELSE "not replaced"]
            ELSE /\ scale_factor' = Get(unit_len)[2]
                 /\ scale_unit' = Some(Get(unit_len)[1])
                 /\ scale_artifact' = Some(ScaleArtifact(Append(scale_points, pt),
                                                         Get(unit_len)[1], Get(unit_len)[2]))
                 /\ scale_points' = <<>>
                 /\ scale_mode' = FALSE
                 /\ last_op' = [op |-> "scale_on_canvas_click", message |-> None,
                                result |-> "scale set"]
       ELSE /\ scale_points' = Append(scale_points, pt)
            /\ last_op' = [op |-> "scale_on_canvas_click", message |-> None,
                           result |-> "ignored"]
            /\ UNCHANGED <<scale_mode, scale_factor, scale_unit, scale_artifact>>
    /\ UNCHANGED <<image, polygons, current_polygon, draw_mode, selected_polygon, config,
                   panel_tiles_overlay, _straighten_backup, zoom_level, image_rotation,
                   dragging, drag_point_index, _vertex_move_backup, fn_args, fn_result>>

-----------------------------------------------------------------------------
(* Where the undo backups come from                                        *)

\* The history of the two undo backups, brought up to date after an operation:
\* straighten is the index of the polygon whose points _straighten_backup
\* holds; vertex_move_stale says that _vertex_move_backup was captured in a
\* document that load_pdf has since replaced
Track ==
    provenance' =
        [straighten |->
             IF _straighten_backup' = None THEN None
             ELSE IF last_op'.op = "straighten_polygon" /\ last_op'.changed
             THEN Some(last_op'.index)
             ELSE provenance.straighten,
         vertex_move_stale |->
             IF _vertex_move_backup' = None THEN FALSE
             ELSE IF last_op'.op = "load_pdf" THEN TRUE
             ELSE IF last_op'.op = "on_drag_start" /\ last_op'.hit THEN FALSE
             ELSE provenance.vertex_move_stale,
         \* the rotations made one after the other, and the points of the
         \* polygons before the first of them
         rotation_run |->
             IF last_op'.op \in {"rotate_left", "rotate_right"}
             THEN Append(provenance.rotation_run, last_op'.op)
             ELSE <<>>,
         rotation_start |->
             IF last_op'.op \in {"rotate_left", "rotate_right"}
             THEN IF provenance.rotation_run = <<>>
                  THEN [i \in 1..Len(polygons) |-> polygons[i].points]
                  ELSE provenance.rotation_start
             ELSE <<>>]

Next ==
    \/ load_pdf /\ UNCHANGED session_ops /\ Track
    \/ set_draw_mode /\ UNCHANGED session_ops /\ Track
    \/ \E pt \in DrawClicks(current_polygon) :
           draw_on_canvas_click(pt) /\ UNCHANGED session_ops /\ Track
    \/ \E point \in SelectClicks : on_canvas_click(point) /\ UNCHANGED session_ops /\ Track
    \/ straighten_polygon /\ UNCHANGED session_ops /\ Track
    \/ undo_straighten /\ UNCHANGED session_ops /\ Track

Spec == Init /\ [][Next]_vars

-----------------------------------------------------------------------------
(* Straighten and undo                                                     *)

\* C2: when undo_straighten runs directly after a straighten_polygon that changed
\* the selected polygon, the polygon's points are again exactly the list it had
\* before the straighten, and area_px and perimeter_px are those of that list.
C2_UndoRestoresOriginal ==
    [][ (/\ last_op.op = "straighten_polygon"
         /\ last_op.changed
         /\ last_op'.op = "undo_straighten")
        => LET poly == polygons'[last_op.index + 1]
           IN  /\ poly.points = last_op.before
               /\ poly.area_px = shoelace_area(last_op.before)
               /\ poly.perimeter_px = polygon_perimeter(last_op.before) ]_vars

\* An undo has put a drawn outline back that straightening had changed
C2_Witness ==
    /\ last_op.op = "undo_straighten"
    /\ last_op.message = None
    /\ _straighten_backup = None
    /\ selected_polygon # None
    /\ LET points == polygons[Get(selected_polygon) + 1].points
       IN  points \in DrawShapes /\ _rectangle_map(points) # points

\* C12: the backup is a single slot.  When undo_straighten runs directly after
\* the second of two successive straighten_polygon calls that each changed the
\* polygon, the polygon's points are those it had just before the second
\* straighten (not the original ones) and the slot is empty; and an
\* undo_straighten that directly follows an undo_straighten changes no polygon.
C12_SingleBackupSlot ==
    [][ /\ (/\ last_op.op = "straighten_polygon"
            /\ last_op.changed
            /\ last_op.repeated
            /\ last_op'.op = "undo_straighten")
           => /\ polygons'[last_op.index + 1].points = last_op.before
              /\ _straighten_backup' = None
        /\ (last_op.op = "undo_straighten" /\ last_op'.op = "undo_straighten")
           => polygons' = polygons /\ _straighten_backup' = _straighten_backup ]_vars

\* An undo directly after two straightenings has put back the outline as the
\* first straightening left it, which is not the outline as drawn
C12_Witness ==
    /\ last_op.op = "undo_straighten"
    /\ last_op.message = None
    /\ last_op.after_repeated
    /\ _straighten_backup = None
    /\ selected_polygon # None
    /\ LET points == polygons[Get(selected_polygon) + 1].points
       IN  /\ points \notin DrawShapes
           /\ \E sh \in DrawShapes : points = _rectangle_map(sh)
           /\ _rectangle_map(points) # points

-----------------------------------------------------------------------------
(* Editing sessions: every operation, from any document                    *)

\* An editing session runs at most this many operations
MaxOps == 4

\* One more operation of the session
Tick == session_ops < MaxOps /\ session_ops' = session_ops + 1

\* The outlines of the documents: those of DrawShapes, four clicks along one
\* line, and a triangle whose fourth vertex was dragged onto its first
EditShapes ==
    DrawShapes
    \cup { << <<0, 0>>, <<8, 0>>, <<16, 0>>, <<24, 0>> >>,
           << <<0, 0>>, <<8, 0>>, <<0, 6>>, <<0, 0>> >> }

\* The polygon lists of the documents: the outlines in any order
EditPolygonLists ==
    UNION {[1..n -> {PolygonData(sh) : sh \in EditShapes}] : n \in 0..MaxPolygons}

\* A document as a drawing session leaves it: a page with polygons drawn on
\* it, one of them selected or none, and perhaps an outline being drawn that
\* the next click closes
InitEdit ==
    /\ image = TRUE
    /\ polygons \in EditPolygonLists
    /\ \E drawing \in {<<FALSE, <<>> >>}
                      \cup (IF Len(polygons) < MaxPolygons
                            THEN {<<TRUE, sh>> : sh \in DrawShapes} ELSE {}) :
           draw_mode = drawing[1] /\ current_polygon = drawing[2]
    /\ selected_polygon \in {None} \cup {Some(i) : i \in 0..(Len(polygons) - 1)}
    /\ scale_factor = 1
    /\ config = [panel_width |-> 1, panel_height |-> 1]
    /\ panel_tiles_overlay = None
    /\ _straighten_backup = None
    /\ zoom_level = 0
    /\ image_rotation = 0
    /\ dragging = FALSE
    /\ drag_point_index = None
    /\ _vertex_move_backup = None
    /\ scale_mode = FALSE
    /\ scale_points = <<>>
    /\ scale_unit = Some("units")
    /\ scale_artifact = None
    /\ session_ops = 0
    /\ provenance = NoBackups
    /\ last_op = [op |-> "init", message |-> None]
    /\ fn_args = None
    /\ fn_result = None

NextEdit ==
    \/ Tick /\ load_pdf /\ Track
    \/ Tick /\ set_draw_mode /\ Track
    \/ \E pt \in DrawClicks(current_polygon) : Tick /\ draw_on_canvas_click(pt) /\ Track
    \/ \E point \in SelectClicks : Tick /\ on_canvas_click(point) /\ Track
    \/ Tick /\ straighten_polygon /\ Track
    \/ Tick /\ undo_straighten /\ Track
    \/ \E pos \in DragStarts : Tick /\ on_drag_start(pos) /\ Track
    \/ \E pos \in DragMoves, snap_mod_down \in BOOLEAN :
           Tick /\ on_drag_move(pos, snap_mod_down) /\ Track
    \/ Tick /\ on_drag_end /\ Track
    \/ Tick /\ undo_last_vertex_move /\ Track
    \/ Tick /\ rotate_left /\ Track
    \/ Tick /\ rotate_right /\ Track
    \/ Tick /\ zoom_in /\ Track
    \/ Tick /\ zoom_out /\ Track

SpecEdit == InitEdit /\ [][NextEdit]_vars

\* C11: after every completed operation (finishing a polygon, dragging a
\* vertex, ending a drag, straightening, either undo, a rotation, loading a
\* page) each stored polygon's area_px is shoelace_area of its points, its
\* perimeter_px is polygon_perimeter of its points, and area_px is not negative.
C11_MetricsMatchPoints ==
    \A i \in 1..Len(polygons) :
        /\ polygons[i].area_px = shoelace_area(polygons[i].points)
        /\ polygons[i].perimeter_px = polygon_perimeter(polygons[i].points)
        /\ polygons[i].area_px >= 0

\* A drag has just moved a vertex, and with it the polygon's area
C11_Witness ==
    /\ last_op.op = "on_drag_move"
    /\ dragging
    /\ _vertex_move_backup # None
    /\ LET poly == polygons[Get(_vertex_move_backup)[1] + 1]
           before == Get(_vertex_move_backup)[3]
       IN  /\ poly.points # before
           /\ poly.area_px # shoelace_area(before)
           /\ poly.perimeter_px # polygon_perimeter(before)

\* The cases in which straightening has nothing to do: no polygon is selected,
\* or the selected one has fewer than 4 vertices once a repeated closing point
\* is dropped, or its bounding box has no width or no height, or its
\* projection onto the bounding box is the point list it already has
NothingToStraighten ==
    \/ selected_polygon = None
    \/ LET points == polygons[Get(selected_polygon) + 1].points
           pts == OpenPoints(points)
           xs == {pts[i][1] : i \in 1..Len(pts)}
           ys == {pts[i][2] : i \in 1..Len(pts)}
       IN  \/ Len(pts) < 4
           \/ SetMax(xs) - SetMin(xs) <= 0
           \/ SetMax(ys) - SetMin(ys) <= 0
           \/ _rectangle_map(points) = points

\* C13: straighten_polygon changes nothing (no polygon's points, area or
\* perimeter, and not the undo backup) when no polygon is selected, when the
\* selected polygon has fewer than 4 vertices after a repeated closing point is
\* dropped, when its bounding box has width or height below 1e-9, or when the
\* projection equals the current points.
C13_StraightenNoOp ==
    [][ (NothingToStraighten /\ last_op'.op = "straighten_polygon")
        => /\ polygons' = polygons
           /\ _straighten_backup' = _straighten_backup
           /\ ~last_op'.changed ]_vars

\* straighten_polygon has just declined a selected outline without height
\* while the undo backup of an earlier straightening was held, and kept both
C13_Witness ==
    /\ last_op.op = "straighten_polygon"
    /\ ~last_op.changed
    /\ _straighten_backup # None
    /\ selected_polygon # None
    /\ LET points == polygons[Get(selected_polygon) + 1].points
       IN  /\ Len(points) >= 4
           /\ \A i \in 1..Len(points) : points[i][2] = points[1][2]
           /\ points # Get(_straighten_backup)

\* C23: undo_straighten writes the backup only to the polygon it was taken
\* from, whatever was selected, dragged or drawn since the straightening.
C23_UndoWritesToOwner ==
    (last_op.op = "undo_straighten" /\ last_op.message = None)
    => last_op.taken_from = Some(last_op.index)

\* undo_straighten has put the points saved from the room onto the triangle,
\* which was selected after the room was straightened
UndoOverwroteOtherPolygon ==
    /\ last_op.op = "undo_straighten"
    /\ last_op.message = None
    /\ last_op.taken_from = Some(1)
    /\ last_op.index = 0
    /\ Len(polygons) = 2
    /\ polygons[1].points = << <<0, 0>>, <<24, 2>>, <<24, 22>>, <<2, 22>> >>
    /\ polygons[2].points # << <<0, 0>>, <<24, 2>>, <<24, 22>>, <<2, 22>> >>

\* The rotations that bring image_rotation back to where it started
RoundTrips ==
    { <<"rotate_right", "rotate_left">>,
      <<"rotate_right", "rotate_right", "rotate_right", "rotate_right">> }

\* C26: rotate_right followed by rotate_left, and four rotate_right calls in a
\* row, leave the points of every polygon as they were before the rotations
C26_RotationRoundTripKeepsPoints ==
    provenance.rotation_run \in RoundTrips =>
        [i \in 1..Len(polygons) |-> polygons[i].points] = provenance.rotation_start

\* Right then left: the angle is back at its start, the polygons are not
RoundTripMovedPolygons ==
    /\ provenance.rotation_run = <<"rotate_right", "rotate_left">>
    /\ image_rotation = 0
    /\ polygons # <<>>
    /\ [i \in 1..Len(polygons) |-> polygons[i].points] # provenance.rotation_start

\* C27: a tile that _classify_tile reports as full lies entirely inside the
\* polygon: every one of its samples * samples sub-cell centres is inside
C27_FullTileHasNoSampleOutside ==
    (fn_result # None /\ Get(fn_args)[1] = "_classify_tile"
        /\ Get(fn_result)[1] = "full")
    => _estimate_overlap_fraction(Get(fn_args)[2], Get(fn_args)[3]) = samples * samples

\* A tile reported as full although the polygon leaves part of it out
FullTileWithSamplesOutside ==
    /\ fn_result # None
    /\ Get(fn_args)[1] = "_classify_tile"
    /\ Get(fn_result) = <<"full", samples * samples>>
    /\ _estimate_overlap_fraction(Get(fn_args)[2], Get(fn_args)[3]) < samples * samples

\* C28: for a selected polygon with at least 3 points and positive area, a
\* valid scale factor and a valid panel size, optimize_panels places at least
\* one tile and stores a layout
C28_PositiveAreaGetsATile ==
    (/\ last_op.op = "optimize_panels"
     /\ OptimizeWarning = None
     /\ Len(polygons[Get(selected_polygon) + 1].points) >= 3
     /\ polygons[Get(selected_polygon) + 1].area_px > 0)
    => /\ panel_tiles_overlay # None
       /\ Get(panel_tiles_overlay).full_count
              + Get(panel_tiles_overlay).partial_count >= 1

\* "No tiles could be placed" for a triangle of positive area
NoTilesForPositiveArea ==
    /\ last_op.op = "optimize_panels"
    /\ last_op.message =
           Some(<<"showinfo", "No tiles could be placed for the selected polygon.">>)
    /\ panel_tiles_overlay = None
    /\ Len(polygons[Get(selected_polygon) + 1].points) = 3
    /\ polygons[Get(selected_polygon) + 1].area_px > 0

-----------------------------------------------------------------------------
(* Drawing, dragging and undoing across documents                           *)

\* Sessions of any length, from the application as it starts, with the
\* operations that draw and select polygons, move their vertices and load
\* documents
NextReload ==
    \/ load_pdf /\ UNCHANGED session_ops /\ Track
    \/ set_draw_mode /\ UNCHANGED session_ops /\ Track
    \/ \E pt \in DrawClicks(current_polygon) :
           draw_on_canvas_click(pt) /\ UNCHANGED session_ops /\ Track
    \/ \E point \in SelectClicks :
           on_canvas_click(point) /\ UNCHANGED session_ops /\ Track
    \/ \E pos \in DragStarts : on_drag_start(pos) /\ UNCHANGED session_ops /\ Track
    \/ \E pos \in DragMoves, snap_mod_down \in BOOLEAN :
           on_drag_move(pos, snap_mod_down) /\ UNCHANGED session_ops /\ Track
    \/ on_drag_end /\ UNCHANGED session_ops /\ Track
    \/ undo_last_vertex_move /\ UNCHANGED session_ops /\ Track

SpecReload == Init /\ [][NextReload]_vars

\* C25: after load_pdf, undo_last_vertex_move changes no polygon until a new
\* drag has started in the new document: an undo that restores points never
\* uses a backup that was captured before the last load_pdf
C25_UndoAfterLoadUsesNewBackup ==
    (last_op.op = "undo_last_vertex_move" /\ last_op.restored) => ~last_op.stale

\* A polygon of the new document carries the points saved in the old one
StaleBackupRestored ==
    /\ last_op.op = "undo_last_vertex_move"
    /\ last_op.restored
    /\ last_op.stale

\* C29: selected_polygon is None or the index of a stored polygon, after any
\* sequence of finish_polygon, canvas-click selection, on_drag_start,
\* undo_last_vertex_move and load_pdf
C29_SelectionIsStoredPolygon ==
    \/ selected_polygon = None
    \/ Get(selected_polygon) \in 0..(Len(polygons) - 1)

\* undo_last_vertex_move has left the selection alone because the polygon its
\* backup names is not in the new document
C29_Witness ==
    /\ last_op.op = "undo_last_vertex_move"
    /\ ~last_op.restored
    /\ _vertex_move_backup # None
    /\ Get(_vertex_move_backup)[1] >= Len(polygons)
    /\ selected_polygon = None

\* C30: every stored polygon has at least 3 points: a drawing is closed only
\* when 3 points were placed, the closing click is no vertex, and drag,
\* straighten, undo and rotation never take a polygon below 3 points
C30_StoredPolygonsHaveThreePoints ==
    \A i \in 1..Len(polygons) : Len(polygons[i].points) >= 3

\* The closing click has just stored a drawing of exactly three points
C30_Witness ==
    /\ last_op.op = "draw_on_canvas_click"
    /\ ~draw_mode
    /\ current_polygon = <<>>
    /\ polygons # <<>>
    /\ Len(polygons[Len(polygons)].points) = 3
    /\ selected_polygon = Some(Len(polygons) - 1)

-----------------------------------------------------------------------------
(* Whole sessions: editing, scale setting and panel optimisation           *)

\* Where the two clicks of a scale land (half pixels), and what the unit and
\* length dialog returns: cancelled, or a unit with a length of one or two
\* units per pixel of the distance clicked
ScaleClicks == { <<0, 0>>, <<20, 0>> }

ScaleDialogs == {None, Some(<<"m", 1>>), Some(<<"cm", 2>>)}

\* The documents a session starts from: an empty page, a page with the room,
\* and a page with the triangle and the room
SessionPolygonLists ==
    { <<>>,
      << PolygonData(<< <<0, 0>>, <<24, 2>>, <<24, 22>>, <<2, 22>> >>) >>,
      << PolygonData(<< <<0, 0>>, <<8, 0>>, <<0, 6>> >>),
         PolygonData(<< <<0, 0>>, <<24, 2>>, <<24, 22>>, <<2, 22>> >>) >> }

\* As InitEdit, with panels of 10 x 10 units and the documents above
InitSession ==
    /\ image = TRUE
    /\ polygons \in SessionPolygonLists
    /\ \E drawing \in {<<FALSE, <<>> >>}
                      \cup (IF Len(polygons) < MaxPolygons
                            THEN {<<TRUE, sh>> : sh \in DrawShapes} ELSE {}) :
           draw_mode = drawing[1] /\ current_polygon = drawing[2]
    /\ selected_polygon \in {None} \cup {Some(i) : i \in 0..(Len(polygons) - 1)}
    /\ scale_factor = 1
    /\ config = [panel_width |-> 10, panel_height |-> 10]
    /\ panel_tiles_overlay = None
    /\ _straighten_backup = None
    /\ zoom_level = 0
    /\ image_rotation = 0
    /\ dragging = FALSE
    /\ drag_point_index = None
    /\ _vertex_move_backup = None
    /\ scale_mode = FALSE
    /\ scale_points = <<>>
    /\ scale_unit = Some("units")
    /\ scale_artifact = None
    /\ session_ops = 0
    /\ provenance = NoBackups
    /\ last_op = [op |-> "init", message |-> None]
    /\ fn_args = None
    /\ fn_result = None

NextSession ==
    \/ Tick /\ load_pdf /\ Track
    \/ Tick /\ set_draw_mode /\ Track
    \/ \E pt \in DrawClicks(current_polygon) : Tick /\ draw_on_canvas_click(pt) /\ Track
    \/ \E point \in SelectClicks : Tick /\ on_canvas_click(point) /\ Track
    \/ Tick /\ straighten_polygon /\ Track
    \/ Tick /\ undo_straighten /\ Track
    \/ \E pos \in DragStarts : Tick /\ on_drag_start(pos) /\ Track
    \/ \E pos \in DragMoves, snap_mod_down \in BOOLEAN :
           Tick /\ on_drag_move(pos, snap_mod_down) /\ Track
    \/ Tick /\ on_drag_end /\ Track
    \/ Tick /\ undo_last_vertex_move /\ Track
    \/ Tick /\ rotate_left /\ Track
    \/ Tick /\ rotate_right /\ Track
    \/ Tick /\ zoom_in /\ Track
    \/ Tick /\ zoom_out /\ Track
    \/ \E replace \in BOOLEAN : Tick /\ set_scale_mode(replace) /\ Track
    \/ \E pt \in ScaleClicks, unit_len \in ScaleDialogs, replace \in BOOLEAN :
           Tick /\ scale_on_canvas_click(pt, unit_len, replace) /\ Track
    \/ Tick /\ cancel_scale_mode /\ Track
    \/ Tick /\ optimize_panels /\ Track

SpecSession == InitSession /\ [][NextSession]_vars

\* The stored polygons are the same polygons in the same places: identical, or
\* one of them edited where it stands, or every one turned with the page
SameNumberAndOrder ==
    /\ Len(polygons') = Len(polygons)
    /\ \/ Cardinality({i \in 1..Len(polygons) : polygons'[i] # polygons[i]}) <= 1
       \/ \E angle \in {90, 180, 270} :
              polygons' = [i \in 1..Len(polygons) |-> RotatedPolygon(polygons[i], angle)]

\* C20: in every step of a session the list of polygons either gains one
\* polygon of at least 3 points at its end (a drawing is finished), or is emptied
\* by load_pdf, or keeps its number and order; drag, straighten, the undo
\* operations and rotation keep number and order, and zoom, scale setting and
\* optimize_panels leave the list as it is.
C20_PolygonsNeverDestroyed ==
    [][ /\ \/ /\ last_op'.op = "draw_on_canvas_click"
              /\ Len(polygons') = Len(polygons) + 1
              /\ SubSeq(polygons', 1, Len(polygons)) = polygons
              /\ Len(polygons'[Len(polygons')].points) >= 3
           \/ /\ last_op'.op = "load_pdf"
              /\ polygons' = <<>>
           \/ SameNumberAndOrder
        /\ last_op'.op \in {"on_drag_start", "on_drag_move", "on_drag_end",
                            "straighten_polygon", "undo_straighten",
                            "undo_last_vertex_move", "rotate_left", "rotate_right"}
             => SameNumberAndOrder
        /\ last_op'.op \in {"zoom_in", "zoom_out", "set_scale_mode", "scale_on_canvas_click",
                            "cancel_scale_mode", "optimize_panels", "set_draw_mode",
                            "on_canvas_click"}
             => polygons' = polygons ]_vars

\* A drawing has just been finished on a page that held the room: the room is
\* still the first polygon, and the new one comes after it
C20_Witness ==
    /\ last_op.op = "draw_on_canvas_click"
    /\ ~draw_mode
    /\ Len(polygons) = 2
    /\ polygons[1] = PolygonData(<< <<0, 0>>, <<24, 2>>, <<24, 22>>, <<2, 22>> >>)
    /\ polygons[2] = PolygonData(<< <<0, 0>>, <<8, 0>>, <<0, 6>> >>)
    /\ selected_polygon = Some(1)

\* A scale of 2 cm per pixel has been set, and optimize_panels has laid panels
\* over the second of two polygons
SessionScaleAndPanels ==
    /\ last_op.op = "optimize_panels"
    /\ last_op.message = None
    /\ scale_artifact # None
    /\ scale_factor = 2
    /\ Len(polygons) = 2
    /\ panel_tiles_overlay # None
    /\ Get(panel_tiles_overlay).polygon_index = 1

\* C24: whenever a layout is stored, its polygon_index is an index into the
\* current polygon list; no stored layout survives load_pdf.
C24_LayoutIndexValid ==
    panel_tiles_overlay # None
    => /\ Get(panel_tiles_overlay).polygon_index >= 0
       /\ Get(panel_tiles_overlay).polygon_index < Len(polygons)

\* load_pdf has emptied the polygon list, and the layout found for a polygon
\* of the page before is still stored
LayoutSurvivedLoad ==
    /\ last_op.op = "load_pdf"
    /\ polygons = <<>>
    /\ panel_tiles_overlay # None
    /\ Get(panel_tiles_overlay).tiles # <<>>

-----------------------------------------------------------------------------
(* Defining the scale, with everything the length entry can hold            *)

\* What is typed into the length entry, and the units of the list
LengthTexts == {"1", "2", "0", "-1", "abc", "", "nan"}

ScaleUnits == {"m", "cm"}

\* A page just loaded
InitScale ==
    /\ image = TRUE
    /\ polygons = <<>>
    /\ current_polygon = <<>>
    /\ draw_mode = FALSE
    /\ selected_polygon = None
    /\ scale_factor = 1
    /\ config = [panel_width |-> 1, panel_height |-> 1]
    /\ panel_tiles_overlay = None
    /\ _straighten_backup = None
    /\ zoom_level = 0
    /\ image_rotation = 0
    /\ dragging = FALSE
    /\ drag_point_index = None
    /\ _vertex_move_backup = None
    /\ scale_mode = FALSE
    /\ scale_points = <<>>
    /\ scale_unit = Some("units")
    /\ scale_artifact = None
    /\ session_ops = 0
    /\ provenance = NoBackups
    /\ last_op = [op |-> "init", message |-> None]
    /\ fn_args = None
    /\ fn_result = None

NextScale ==
    \/ load_pdf /\ UNCHANGED session_ops /\ Track
    \/ set_draw_mode /\ UNCHANGED session_ops /\ Track
    \/ zoom_in /\ UNCHANGED session_ops /\ Track
    \/ zoom_out /\ UNCHANGED session_ops /\ Track
    \/ \E replace \in BOOLEAN : set_scale_mode(replace) /\ UNCHANGED session_ops /\ Track
    \/ \E pt \in ScaleClicks, unit \in ScaleUnits, text \in LengthTexts,
          ok \in BOOLEAN, replace \in BOOLEAN :
           /\ scale_on_canvas_click(pt, _prompt_scale_unit(unit, text, ok), replace)
           /\ UNCHANGED session_ops /\ Track
    \/ cancel_scale_mode /\ UNCHANGED session_ops /\ Track

SpecScale == InitScale /\ [][NextScale]_vars

\* C21: scale_factor is strictly positive in every reachable state.
C21_ScaleFactorPositive == FloatGt(scale_factor, 0)

\* The length entry held "nan" when OK was pressed: the scale has been set, and
\* scale_factor is nan
ScaleFactorIsNaN ==
    /\ last_op.op = "scale_on_canvas_click"
    /\ last_op.result = "scale set"
    /\ scale_factor = NaN
    /\ Get(scale_artifact).scale_factor = NaN

-----------------------------------------------------------------------------
(* optimize_panels against any application state                           *)

Square10 == << <<0, 0>>, <<20, 0>>, <<20, 20>>, <<0, 20>> >>

\* Polygons an application object may hold (half pixels): the 10 x 10 pixel
\* square, the same square shifted by half a 5-pixel panel, a 7.5 x 10 pixel
\* rectangle, an L-shaped room, a triangle, a room with a notch cut into one
\* side, three collinear points, a triangle with legs of one pixel, and a
\* list of two points
OptShapes ==
    << Square10,
       << <<5, 5>>, <<25, 5>>, <<25, 25>>, <<5, 25>> >>,
       << <<0, 0>>, <<15, 0>>, <<15, 20>>, <<0, 20>> >>,
       << <<0, 0>>, <<20, 0>>, <<20, 10>>, <<10, 10>>, <<10, 20>>, <<0, 20>> >>,
       << <<0, 0>>, <<20, 0>>, <<0, 20>> >>,
       << <<15, 20>>, <<5, 30>>, <<5, 5>>, <<25, 5>>, <<20, 30>> >>,
       << <<0, 0>>, <<10, 0>>, <<20, 0>> >>,
       << <<0, 0>>, <<2, 0>>, <<0, 2>> >>,
       << <<0, 0>>, <<20, 20>> >> >>

\* The polygon lists of the initial states: up to MaxPolygons consecutive
\* shapes of OptShapes, starting anywhere
OptPolygonLists ==
    { [i \in 1..n |-> PolygonData(OptShapes[((k + i - 2) % Len(OptShapes)) + 1])] :
        k \in 1..Len(OptShapes), n \in 1..MaxPolygons }

\* Scale factors: invalid ones, 1 and 2 units per pixel, and one so large
\* that a panel of one unit is below EPSILON pixels
OptScales == {-1, 0, 1, 2, 2000000000}

\* Panel sizes a configuration file may hold, valid and not
OptConfigs ==
    { [panel_width |-> 5, panel_height |-> 5],
      [panel_width |-> 10, panel_height |-> 10],
      [panel_width |-> 1, panel_height |-> 1],
      [panel_width |-> 0, panel_height |-> 5],
      [panel_width |-> 5, panel_height |-> -1] }

\* The panel sizes the grid represents exactly at scale factor sf: a guard
\* of optimize_panels fails, or both pixel sizes are whole pixels of at least 5
OnGrid(cfg, sf) ==
    \/ sf <= 0
    \/ cfg.panel_width <= 0 \/ cfg.panel_height <= 0
    \/ PixelSizeTooSmall(cfg.panel_width, sf) \/ PixelSizeTooSmall(cfg.panel_height, sf)
    \/ /\ (2 * cfg.panel_width) % sf = 0 /\ ToPixels(cfg.panel_width, sf) % 10 = 0
       /\ (2 * cfg.panel_height) % sf = 0 /\ ToPixels(cfg.panel_height, sf) % 10 = 0

\* A layout stored by an earlier call
EarlierLayout ==
    [polygon_index |-> 0,
     tiles |-> << [points |-> _rect_corners(10, 10, 10, 10), type |-> "full"] >>,
     full_count |-> 1,
     partial_count |-> 0,
     waste_pct |-> <<0, 1>>]

InitOpt ==
    /\ image = TRUE
    /\ polygons \in OptPolygonLists
    /\ current_polygon = <<>>
    /\ draw_mode = FALSE
    /\ selected_polygon \in {None} \cup {Some(i) : i \in 0..(Len(polygons) - 1)}
    /\ scale_factor \in OptScales
    /\ config \in {cfg \in OptConfigs : OnGrid(cfg, scale_factor)}
    /\ panel_tiles_overlay \in {None, Some(EarlierLayout)}
    /\ _straighten_backup = None
    /\ zoom_level = 0
    /\ image_rotation = 0
    /\ dragging = FALSE
    /\ drag_point_index = None
    /\ _vertex_move_backup = None
    /\ scale_mode = FALSE
    /\ scale_points = <<>>
    /\ scale_unit = None
    /\ scale_artifact = None
    /\ session_ops = 0
    /\ provenance = NoBackups
    /\ last_op = [op |-> "init", message |-> None]
    /\ fn_args = None
    /\ fn_result = None

NextOpt ==
    \/ optimize_panels /\ UNCHANGED session_ops /\ Track
    \/ \E cfg \in {c \in OptConfigs : OnGrid(c, scale_factor)} :
           load_config(cfg) /\ UNCHANGED session_ops /\ Track

SpecOpt == InitOpt /\ [][NextOpt]_vars

\* The polygon optimize_panels works on, and the layout of its origin i
Selected == polygons[Get(selected_polygon) + 1]

Origin(i) == OriginLayout(Selected, config.panel_width, config.panel_height, scale_factor, i)

HasTiles(layout) == layout.full_count > 0 \/ layout.partial_count > 0

NoTilesMessage == Some(<<"showinfo", "No tiles could be placed for the selected polygon.">>)

IsWarning(message) == message # None /\ Get(message)[1] = "showwarning"

\* optimize_panels ran last and stored a layout
Succeeded == last_op.op = "optimize_panels" /\ last_op.message = None

\* C1: for the 10 x 10 pixel square with scale_factor 1 and 5 x 5 panels, the
\* layout optimize_panels stores has full_count 4, partial_count 0 and
\* waste_pct 0.0.
C1_ExactTilingAllFull ==
    (/\ Succeeded
     /\ Selected.points = Square10
     /\ scale_factor = 1
     /\ config = [panel_width |-> 5, panel_height |-> 5])
    => LET stored == Get(panel_tiles_overlay)
       IN  /\ stored.full_count = 4
           /\ stored.partial_count = 0
           /\ WasteEqual(stored.waste_pct, <<0, 1>>)

\* C4: a call of optimize_panels with no polygon selected, with scale_factor
\* <= 0, with a panel dimension <= 0 or with a pixel panel dimension <= 1e-9
\* shows a warning and changes neither panel_tiles_overlay nor any polygon.
C4_PreconditionFailureKeepsLayout ==
    [][ (/\ last_op'.op = "optimize_panels"
         /\ \/ selected_polygon = None
            \/ scale_factor <= 0
            \/ config.panel_width <= 0
            \/ config.panel_height <= 0
            \/ PixelSizeTooSmall(config.panel_width, scale_factor)
            \/ PixelSizeTooSmall(config.panel_height, scale_factor))
        => /\ panel_tiles_overlay' = panel_tiles_overlay
           /\ polygons' = polygons
           /\ IsWarning(last_op'.message) ]_vars

\* optimize_panels has refused a scale factor <= 0 for a selected polygon while
\* a layout was stored, and the layout is still there
C4_Witness ==
    /\ last_op.op = "optimize_panels"
    /\ selected_polygon # None
    /\ scale_factor <= 0
    /\ last_op.previous = Some(EarlierLayout)
    /\ panel_tiles_overlay = Some(EarlierLayout)
    /\ last_op.message = Some(<<"showwarning", "Set a valid scale before optimising panels.">>)

C6_NoTilesClearsLayout ==
    [][ (/\ last_op'.op = "optimize_panels"
         /\ selected_polygon # None
         /\ scale_factor > 0
         /\ config.panel_width > 0
         /\ config.panel_height > 0
         /\ ~PixelSizeTooSmall(config.panel_width, scale_factor)
         /\ ~PixelSizeTooSmall(config.panel_height, scale_factor)
         /\ Len(Selected.points) >= 3
         /\ \A i \in 1..4 : ~HasTiles(Origin(i)))
        => /\ panel_tiles_overlay' = None
           /\ polygons' = polygons
           /\ last_op'.message = NoTilesMessage
           /\ ~IsWarning(last_op'.message) ]_vars

\* optimize_panels has found no tile for a polygon of at least 3 points and
\* has cleared a layout that was stored
C6_Witness ==
    /\ last_op.op = "optimize_panels"
    /\ last_op.message = NoTilesMessage
    /\ last_op.previous = Some(EarlierLayout)
    /\ panel_tiles_overlay = None
    /\ selected_polygon # None
    /\ Len(Selected.points) >= 3

\* C7: the layout optimize_panels stores is that of an origin with at least
\* one tile such that no other such origin has more full tiles, or as many
\* full tiles and fewer partial tiles, or as many of both and less waste; and
\* no earlier such origin equals it on all three.
C7_BestOriginStored ==
    Succeeded
    => \E layouts \in {[i \in 1..4 |-> Origin(i)]} :
       LET stored == Get(panel_tiles_overlay)
           placed == {i \in 1..4 : HasTiles(layouts[i])}
           Better(a, b) ==
               \/ a.full_count > b.full_count
               \/ a.full_count = b.full_count /\ a.partial_count < b.partial_count
               \/ /\ a.full_count = b.full_count
                  /\ a.partial_count = b.partial_count
                  /\ WasteLess(a.waste_pct, b.waste_pct)
           Equal(a, b) ==
               /\ a.full_count = b.full_count
               /\ a.partial_count = b.partial_count
               /\ WasteEqual(a.waste_pct, b.waste_pct)
       IN  \E i \in placed :
               /\ stored.tiles = layouts[i].tiles
               /\ stored.full_count = layouts[i].full_count
               /\ stored.partial_count = layouts[i].partial_count
               /\ stored.waste_pct = layouts[i].waste_pct
               /\ \A j \in placed : ~Better(layouts[j], layouts[i])
               /\ \A j \in placed : j < i => ~Equal(layouts[j], layouts[i])

\* The stored layout is that of a later origin: it has more full tiles than
\* the first origin (0, 0), which placed tiles too, and fewer partial tiles
\* than another origin with as many full tiles
C7_Witness ==
    /\ Succeeded
    /\ HasTiles(Origin(1))
    /\ \E i \in 2..4 :
          /\ Get(panel_tiles_overlay).tiles = Origin(i).tiles
          /\ Origin(i).full_count > Origin(1).full_count
          /\ \E j \in 1..4 :
                /\ Origin(j).full_count = Origin(i).full_count
                /\ Origin(j).partial_count > Origin(i).partial_count

\* C8: after a successful optimize_panels the stored layout has exactly the
\* five fields of a result; polygon_index is the selected polygon, tiles is
\* the tile list of the winning origin, full_count and partial_count count
\* the tiles of type full and partial, and together they count every tile.
C8_StoredLayoutIsNew ==
    Succeeded
    => LET stored == Get(panel_tiles_overlay)
           best == Get(BestLayout(Selected, config.panel_width, config.panel_height,
                                  scale_factor))
           Count(type) ==
               Cardinality({k \in 1..Len(stored.tiles) : stored.tiles[k].type = type})
       IN  /\ DOMAIN stored =
                  {"polygon_index", "tiles", "full_count", "partial_count", "waste_pct"}
           /\ stored.polygon_index = Get(selected_polygon)
           /\ stored.tiles = best.tiles
           /\ stored.waste_pct = best.waste_pct
           /\ stored.full_count = Count("full")
           /\ stored.partial_count = Count("partial")
           /\ stored.full_count + stored.partial_count = Len(stored.tiles)

\* A layout of full and partial tiles has replaced a layout that was stored
\* for another polygon
C8_Witness ==
    /\ Succeeded
    /\ last_op.previous = Some(EarlierLayout)
    /\ Get(selected_polygon) # EarlierLayout.polygon_index
    /\ Get(panel_tiles_overlay).full_count > 0
    /\ Get(panel_tiles_overlay).partial_count > 0

\* The number of the 64 sub-cell centres of the rectangle that lie in the
\* polygon (coordinates scaled by 2 * samples, as in SamplePoint)
SamplesInside(rect, polygon) ==
    Cardinality({ij \in (0..7) \X (0..7) :
                    point_in_polygon(
                        << 16 * rect[1][1] + (2 * ij[1] + 1) * (rect[3][1] - rect[1][1]),
                           16 * rect[1][2] + (2 * ij[2] + 1) * (rect[3][2] - rect[1][2]) >>,
                        [k \in 1..Len(polygon) |-> <<16 * polygon[k][1], 16 * polygon[k][2]>>])})

\* The tile lists of a search: those _generate_layout returns for the four
\* origins, and the one stored
SearchTileLists ==
    {Origin(i).tiles : i \in 1..4}
    \cup (IF panel_tiles_overlay = None THEN {} ELSE {Get(panel_tiles_overlay).tiles})

\* C10: when optimize_panels has searched, every tile of the four layouts of
\* _generate_layout and of the stored layout is of type full or partial, and
\* the overlap of a partial tile is k 64ths, k the number of the 64 sub-cell
\* centres inside the polygon, so between 0 and 1.
C10_TilesFullOrPartial ==
    (last_op.op = "optimize_panels" /\ OptimizeWarning = None)
    => \A tiles \in SearchTileLists : \A k \in 1..Len(tiles) :
           /\ tiles[k].type \in {"full", "partial"}
           /\ tiles[k].type = "partial"
              => /\ tiles[k].overlap = SamplesInside(tiles[k].points, Selected.points)
                 /\ 0 <= tiles[k].overlap
                 /\ tiles[k].overlap <= 64

\* The grid cells of origin i: the rectangles _generate_layout classifies
GridCells(i) ==
    LET w == ToPixels(config.panel_width, scale_factor)
        h == ToPixels(config.panel_height, scale_factor)
        off == offsets(w, h)[i]
        xs == {Selected.points[k][1] : k \in 1..Len(Selected.points)}
        ys == {Selected.points[k][2] : k \in 1..Len(Selected.points)}
    IN  {_rect_corners(col * w + off[1], row * h + off[2], w, h) :
            col \in Floor(SetMin(xs) - off[1], w)..(Ceil(SetMax(xs) - off[1], w) - 1),
            row \in Floor(SetMin(ys) - off[2], h)..(Ceil(SetMax(ys) - off[2], h) - 1)}

\* The stored layout has a partial tile that is partly outside the polygon,
\* and its grid had a cell that touches the polygon yet is not listed
C10_Witness ==
    /\ Succeeded
    /\ \E k \in 1..Len(Get(panel_tiles_overlay).tiles) :
          LET tile == Get(panel_tiles_overlay).tiles[k]
          IN  tile.type = "partial" /\ tile.overlap < 64
    /\ \E i \in 1..4 :
          /\ Get(panel_tiles_overlay).tiles = Origin(i).tiles
          /\ \E rect \in GridCells(i) :
                /\ _rect_polygon_overlap(rect, Selected.points)
                /\ \A k \in 1..Len(Origin(i).tiles) : Origin(i).tiles[k].points # rect

-----------------------------------------------------------------------------
(* _classify_tile and _rectangle_map applied to given arguments            *)

\* Tile rectangles are tried at this many steps of 2.5 pixels along each axis
TileSteps == 6

\* Rectangles passed to _rectangle_map have sides of 1..MaxSide pixels
MaxSide == 3

\* 5 x 5 pixel tiles at offsets of -5 .. 10 pixels (half pixels)
ClassifyRects ==
    {_rect_corners(5 * i - 10, 5 * j - 10, 10, 10) : i \in 0..TileSteps, j \in 0..TileSteps}

\* The 10 x 10 pixel square, an L-shaped room, a triangle, a room with a
\* notch, a bar 2 pixels wide that crosses whole tiles, and a list of two points
ClassifyPolygons ==
    { Square10,
      << <<0, 0>>, <<20, 0>>, <<20, 10>>, <<10, 10>>, <<10, 20>>, <<0, 20>> >>,
      << <<0, 0>>, <<20, 0>>, <<0, 20>> >>,
      << <<15, 20>>, <<5, 30>>, <<5, 5>>, <<25, 5>>, <<20, 30>> >>,
      << <<4, -20>>, <<8, -20>>, <<8, 40>>, <<4, 40>> >>,
      << <<0, 0>>, <<20, 20>> >> }

\* The four corners of the rectangle at (x, y), listed from corner number
\* start (0 = top-left, as _rect_corners numbers them), forwards or backwards
Corners(x, y, w, h, start, forwards) ==
    [k \in 1..4 |->
        _rect_corners(x, y, w, h)[((start + (IF forwards THEN 1 ELSE 3) * (k - 1)) % 4) + 1]]

\* Every exact axis-aligned rectangle with sides of 1..MaxSide pixels at two
\* positions, from every starting corner, in both winding directions
Rectangles ==
    {Corners(xy[1], xy[2], 2 * w, 2 * h, start, forwards) :
        xy \in {<<0, 0>>, <<6, 10>>}, w \in 1..MaxSide, h \in 1..MaxSide,
        start \in 0..3, forwards \in BOOLEAN}

\* Outlines with four vertices or more that are no rectangles (half pixels):
\* an L, a pentagon, the drawn room, lists that repeat a vertex, a list whose
\* bounding box has no height; each also closed, its first point repeated
OpenOutlines ==
    { << <<0, 0>>, <<20, 0>>, <<20, 10>>, <<10, 10>>, <<10, 20>>, <<0, 20>> >>,
      << <<4, 9>>, <<0, 6>>, <<0, 0>>, <<8, 0>>, <<8, 6>> >>,
      << <<0, 0>>, <<24, 2>>, <<24, 22>>, <<2, 22>> >>,
      << <<0, 0>>, <<0, 0>>, <<8, 0>>, <<8, 6>>, <<0, 6>> >>,
      << <<0, 0>>, <<8, 0>>, <<8, 6>>, <<0, 6>>, <<0, 0>> >>,
      << <<3, 3>>, <<3, 3>>, <<3, 3>>, <<3, 3>>, <<7, 7>> >>,
      << <<0, 0>>, <<8, 0>>, <<16, 0>>, <<24, 0>> >>,
      << <<0, 0>>, <<10, 10>>, <<5, 3>> >> }

Outlines == OpenOutlines \cup {Append(points, points[1]) : points \in OpenOutlines}

\* Point lists of up to this many points
MaxPoints == 4

\* Every list of up to MaxPoints points with coordinates 0, 3 and 4 (half
\* pixels): empty, single points, segments, triangles and quadrilaterals of
\* either orientation, with repeated and collinear points among them
PointLists ==
    UNION {[1..n -> {0, 3, 4} \X {0, 3, 4}] : n \in 0..MaxPoints}

\* The 4 x 3 pixel rectangle from every starting corner, both ways round
Rectangle4x3 == {Corners(0, 0, 8, 6, start, forwards) : start \in 0..3, forwards \in BOOLEAN}

\* The points on and around a polygon: its bounding box and one half pixel
\* more on every side, and a point far away
PointsAround(polygon) ==
    LET xs == {polygon[i][1] : i \in 1..Len(polygon)}
        ys == {polygon[i][2] : i \in 1..Len(polygon)}
    IN  ((SetMin(xs) - 1)..(SetMax(xs) + 1)) \X ((SetMin(ys) - 1)..(SetMax(ys) + 1))
        \cup {<<SetMax(xs) + 2, SetMax(ys) + 4>>}

\* Polygons for point_in_polygon: the rectangles, and lists of one and two points
InsidePolygons ==
    Rectangles \cup Rectangle4x3 \cup {points \in PointLists : Len(points) \in 1..2}

FnInputs ==
    {<<"_classify_tile", rect, polygon>> : rect \in ClassifyRects, polygon \in ClassifyPolygons}
    \cup {<<"_rectangle_map", points>> :
               points \in Rectangles \cup DrawShapes \cup Outlines}
    \cup {<<"polygon_perimeter", points>> : points \in PointLists}
    \cup {<<"shoelace_area", points>> : points \in PointLists}
    \cup UNION {{<<"point_in_polygon", pt, polygon>> : pt \in PointsAround(polygon)} :
                    polygon \in InsidePolygons}

InitFn ==
    /\ image = FALSE
    /\ polygons = <<>>
    /\ current_polygon = <<>>
    /\ draw_mode = FALSE
    /\ selected_polygon = None
    /\ scale_factor = 1
    /\ config = [panel_width |-> 1, panel_height |-> 1]
    /\ panel_tiles_overlay = None
    /\ _straighten_backup = None
    /\ zoom_level = 0
    /\ image_rotation = 0
    /\ dragging = FALSE
    /\ drag_point_index = None
    /\ _vertex_move_backup = None
    /\ scale_mode = FALSE
    /\ scale_points = <<>>
    /\ scale_unit = None
    /\ scale_artifact = None
    /\ session_ops = 0
    /\ provenance = NoBackups
    /\ last_op = [op |-> "init", message |-> None]
    /\ fn_args \in {Some(args) : args \in FnInputs}
    /\ fn_result = None

call_classify_tile ==
    /\ fn_result = None
    /\ Get(fn_args)[1] = "_classify_tile"
    /\ fn_result' = Some(_classify_tile(Get(fn_args)[2], Get(fn_args)[3]))
    /\ last_op' = [op |-> "_classify_tile", message |-> None]
    /\ UNCHANGED <<image, polygons, current_polygon, draw_mode, selected_polygon,
                   scale_factor, config, panel_tiles_overlay, _straighten_backup, fn_args,
                   zoom_level, image_rotation, dragging, drag_point_index,
                   _vertex_move_backup, scale_mode, scale_points, scale_unit, scale_artifact>>

call_rectangle_map ==
    /\ fn_result = None
    /\ Get(fn_args)[1] = "_rectangle_map"
    /\ fn_result' = Some(_rectangle_map(Get(fn_args)[2]))
    /\ last_op' = [op |-> "_rectangle_map", message |-> None]
    /\ UNCHANGED <<image, polygons, current_polygon, draw_mode, selected_polygon,
                   scale_factor, config, panel_tiles_overlay, _straighten_backup, fn_args,
                   zoom_level, image_rotation, dragging, drag_point_index,
                   _vertex_move_backup, scale_mode, scale_points, scale_unit, scale_artifact>>

call_polygon_perimeter ==
    /\ fn_result = None
    /\ Get(fn_args)[1] = "polygon_perimeter"
    /\ fn_result' = Some(polygon_perimeter(Get(fn_args)[2]))
    /\ last_op' = [op |-> "polygon_perimeter", message |-> None]
    /\ UNCHANGED <<image, polygons, current_polygon, draw_mode, selected_polygon,
                   scale_factor, config, panel_tiles_overlay, _straighten_backup, fn_args,
                   zoom_level, image_rotation, dragging, drag_point_index,
                   _vertex_move_backup, scale_mode, scale_points, scale_unit, scale_artifact>>

call_shoelace_area ==
    /\ fn_result = None
    /\ Get(fn_args)[1] = "shoelace_area"
    /\ fn_result' = Some(shoelace_area(Get(fn_args)[2]))
    /\ last_op' = [op |-> "shoelace_area", message |-> None]
    /\ UNCHANGED <<image, polygons, current_polygon, draw_mode, selected_polygon,
                   scale_factor, config, panel_tiles_overlay, _straighten_backup, fn_args,
                   zoom_level, image_rotation, dragging, drag_point_index,
                   _vertex_move_backup, scale_mode, scale_points, scale_unit, scale_artifact>>

call_point_in_polygon ==
    /\ fn_result = None
    /\ Get(fn_args)[1] = "point_in_polygon"
    /\ fn_result' = Some(point_in_polygon(Get(fn_args)[2], Get(fn_args)[3]))
    /\ last_op' = [op |-> "point_in_polygon", message |-> None]
    /\ UNCHANGED <<image, polygons, current_polygon, draw_mode, selected_polygon,
                   scale_factor, config, panel_tiles_overlay, _straighten_backup, fn_args,
                   zoom_level, image_rotation, dragging, drag_point_index,
                   _vertex_move_backup, scale_mode, scale_points, scale_unit, scale_artifact>>

NextFn ==
    \/ call_classify_tile /\ UNCHANGED session_ops /\ Track
    \/ call_rectangle_map /\ UNCHANGED session_ops /\ Track
    \/ call_polygon_perimeter /\ UNCHANGED session_ops /\ Track
    \/ call_shoelace_area /\ UNCHANGED session_ops /\ Track
    \/ call_point_in_polygon /\ UNCHANGED session_ops /\ Track

SpecFn == InitFn /\ [][NextFn]_vars

\* Four points that are the corners of an axis-aligned rectangle of positive
\* width and height, in order around it
IsExactRectangle(points) ==
    /\ Len(points) = 4
    /\ LET xs == {points[k][1] : k \in 1..4}
           ys == {points[k][2] : k \in 1..4}
       IN  /\ Cardinality(xs) = 2
           /\ Cardinality(ys) = 2
           /\ {points[k] : k \in 1..4} = xs \X ys
           /\ \A k \in 1..4 :
                 (points[k][1] = points[(k % 4) + 1][1])
                 # (points[k][2] = points[(k % 4) + 1][2])

\* C3: _rectangle_map returns the points it was given whenever they are the 4
\* corners of an exact axis-aligned rectangle, whichever corner comes first
\* and whichever way round they are listed.
C3_RectangleIsFixedPoint ==
    (/\ fn_result # None
     /\ Get(fn_args)[1] = "_rectangle_map"
     /\ IsExactRectangle(Get(fn_args)[2]))
    => Get(fn_result) = Get(fn_args)[2]

\* The bounding rectangle of the vertices
BoundingBox(points) ==
    LET pts == OpenPoints(points)
        xs == {pts[i][1] : i \in 1..Len(pts)}
        ys == {pts[i][2] : i \in 1..Len(pts)}
    IN  [min_x |-> SetMin(xs), max_x |-> SetMax(xs),
         min_y |-> SetMin(ys), max_y |-> SetMax(ys)]

OnBoundary(pt, box) ==
    /\ box.min_x <= pt[1] /\ pt[1] <= box.max_x
    /\ box.min_y <= pt[2] /\ pt[2] <= box.max_y
    /\ pt[1] \in {box.min_x, box.max_x} \/ pt[2] \in {box.min_y, box.max_y}

\* How far a boundary point is along the loop that starts at (min_x, min_y)
\* and runs along the top edge, the right edge, the bottom edge, the left edge
Walked(pt, box) ==
    LET width == box.max_x - box.min_x
        height == box.max_y - box.min_y
    IN  IF pt[2] = box.min_y THEN pt[1] - box.min_x
        ELSE IF pt[1] = box.max_x THEN width + (pt[2] - box.min_y)
        ELSE IF pt[2] = box.max_y THEN width + height + (box.max_x - pt[1])
        ELSE 2 * width + height + (box.max_y - pt[2])

\* The vertices never walk backwards along the loop.  The starting corner is
\* both the start and the end of the loop: vertices on it count as distance 0
\* up to some position j of the list and as the whole loop after it.
NeverWalksBack(pts, box) ==
    LET loop == 2 * ((box.max_x - box.min_x) + (box.max_y - box.min_y))
        walked(j, k) == IF pts[k] = <<box.min_x, box.min_y>> /\ k > j THEN loop
                        ELSE Walked(pts[k], box)
    IN  \E j \in 1..Len(pts) :
            \A k \in 1..(Len(pts) - 1) : walked(j, k) <= walked(j, k + 1)

\* The inputs C14 speaks of: 4 vertices or more, a bounding box with an inside
HasRectangleMap(points) ==
    /\ Len(points) >= 1
    /\ Len(OpenPoints(points)) >= 4
    /\ BoundingBox(points).max_x > BoundingBox(points).min_x
    /\ BoundingBox(points).max_y > BoundingBox(points).min_y

\* C14: for an input with at least 4 vertices and a non-degenerate bounding
\* box, _rectangle_map returns a list of the same length whose vertices all lie
\* on the boundary of the input's bounding rectangle, whose first vertex is the
\* corner (min_x, min_y), whose vertices are in non-decreasing walked distance
\* along the loop top, right, bottom, left edge, and which repeats its first
\* point at the end exactly when the input did.
C14_RectangleMapOnBoundary ==
    (/\ fn_result # None
     /\ Get(fn_args)[1] = "_rectangle_map"
     /\ HasRectangleMap(Get(fn_args)[2]))
    => LET points == Get(fn_args)[2]
           result == Get(fn_result)
           box == BoundingBox(points)
       IN  /\ Len(result) = Len(points)
           /\ \A k \in 1..Len(result) : OnBoundary(result[k], box)
           /\ result[1] = <<box.min_x, box.min_y>>
           /\ NeverWalksBack(SubSeq(result, 1, Len(OpenPoints(points))), box)
           /\ (result[1] = result[Len(result)]) <=> (points[1] = points[Len(points)])

\* _rectangle_map has moved the vertices of a closed outline that is no
\* rectangle, some of them off a corner, and closed the result again
C14_Witness ==
    /\ fn_result # None
    /\ Get(fn_args)[1] = "_rectangle_map"
    /\ HasRectangleMap(Get(fn_args)[2])
    /\ LET points == Get(fn_args)[2]
           result == Get(fn_result)
           box == BoundingBox(points)
       IN  /\ points[1] = points[Len(points)]
           /\ Len(points) >= 6
           /\ result # points
           /\ \E k \in 1..Len(result) :
                  /\ result[k][1] \notin {box.min_x, box.max_x}
                  /\ result[k][2] \in {box.min_y, box.max_y}

\* C15 as the spec states it: for every list of fewer than 3 points
\* polygon_perimeter returns 0, in particular for two distinct points.
C15_FewPointsNoPerimeter ==
    (/\ fn_result # None
     /\ Get(fn_args)[1] = "polygon_perimeter"
     /\ Len(Get(fn_args)[2]) < 3)
    => Get(fn_result) = 0

\* What polygon_perimeter computes for such lists: 0 for fewer than 2 points;
\* for exactly two points twice the distance between them (the segment out and
\* back), which is 0 only when they coincide.
PerimeterOfFewPoints ==
    (/\ fn_result # None
     /\ Get(fn_args)[1] = "polygon_perimeter"
     /\ Len(Get(fn_args)[2]) < 3)
    => LET points == Get(fn_args)[2]
       IN  IF Len(points) < 2 THEN Get(fn_result) = 0
           ELSE /\ Get(fn_result) =
                       2 * Hypot(points[2][1] - points[1][1], points[2][2] - points[1][2])
                /\ (Get(fn_result) = 0) <=> (points[1] = points[2])

\* polygon_perimeter has measured two points 2.5 pixels apart: 5 pixels
TwoPointsMeasured ==
    /\ fn_result # None
    /\ Get(fn_args)[1] = "polygon_perimeter"
    /\ Get(fn_args)[2] = << <<0, 0>>, <<3, 4>> >>
    /\ Get(fn_result) = 10

\* C16: shoelace_area returns 0 for every point list of fewer than 3 points,
\* and never a negative value.
C16_AreaOfFewPointsIsZero ==
    (fn_result # None /\ Get(fn_args)[1] = "shoelace_area")
    => /\ Len(Get(fn_args)[2]) < 3 => Get(fn_result) = 0
       /\ Get(fn_result) >= 0

\* shoelace_area has returned 0 for two distinct points
C16_Witness ==
    /\ fn_result # None
    /\ Get(fn_args)[1] = "shoelace_area"
    /\ Get(fn_args)[2] = << <<0, 0>>, <<3, 3>> >>
    /\ Get(fn_result) = 0

\* The list moved round by k places, and the list backwards
RotatedList(points, k) ==
    [i \in 1..Len(points) |-> points[((i - 1 + k) % Len(points)) + 1]]

ReversedList(points) ==
    [i \in 1..Len(points) |-> points[Len(points) + 1 - i]]

C18_InsideRectangleHalfOpen ==
    (fn_result # None /\ Get(fn_args)[1] = "point_in_polygon")
    => LET pt == Get(fn_args)[2]
           polygon == Get(fn_args)[3]
       IN  /\ Len(polygon) < 3 => Get(fn_result) = FALSE
           /\ polygon \in Rectangles \cup Rectangle4x3
                => LET box == BoundingBox(polygon)
                   IN  Get(fn_result) <=> /\ box.min_x < pt[1] /\ pt[1] <= box.max_x
                                          /\ box.min_y < pt[2] /\ pt[2] <= box.max_y

\* point_in_polygon has counted the corner (max_x, max_y) of the 4 x 3 pixel
\* rectangle as inside
C18_Witness ==
    /\ fn_result # None
    /\ Get(fn_args)[1] = "point_in_polygon"
    /\ Get(fn_args)[3] \in Rectangle4x3
    /\ Get(fn_args)[2] = <<8, 6>>
    /\ Get(fn_result) = TRUE

\* The spec's examples: (2, 1.5) is inside the rectangle (0,0),(4,0),(4,3),(0,3)
\* and (5, 5) is not; a corner on the edge y = min_y is not either
InsideExamples ==
    (/\ fn_result # None
     /\ Get(fn_args)[1] = "point_in_polygon"
     /\ Get(fn_args)[3] = << <<0, 0>>, <<8, 0>>, <<8, 6>>, <<0, 6>> >>)
    => /\ Get(fn_args)[2] = <<4, 3>> => Get(fn_result) = TRUE
       /\ Get(fn_args)[2] = <<10, 10>> => Get(fn_result) = FALSE
       /\ Get(fn_args)[2] = <<8, 0>> => Get(fn_result) = FALSE

\* C19: when optimize_panels runs twice in a row (same selection, points,
\* configuration and scale factor), the layout stored after the second run is
\* the layout stored after the first: same tiles in the same order, same
\* full_count, partial_count and waste_pct.
C19_OptimizeTwiceSameLayout ==
    (last_op.op = "optimize_panels" /\ last_op.repeated)
    => panel_tiles_overlay = last_op.previous

\* The second of two runs in a row has stored a layout of full and partial
\* tiles with waste, found by the first run in place of an earlier layout
C19_Witness ==
    /\ last_op.op = "optimize_panels"
    /\ last_op.repeated
    /\ last_op.message = None
    /\ panel_tiles_overlay # None
    /\ panel_tiles_overlay # Some(EarlierLayout)
    /\ Get(panel_tiles_overlay).full_count > 0
    /\ Get(panel_tiles_overlay).partial_count > 0
    /\ Get(panel_tiles_overlay).waste_pct[1] > 0

\* C9: _classify_tile returns (full, 1.0) exactly when point_in_polygon holds
\* of all four corners; otherwise (excluded, 0.0) when no polygon vertex is in
\* the rectangle, no corner is in the polygon and no rectangle edge meets a
\* polygon edge, or when none of the 64 sample points is in the polygon;
\* otherwise partial with the fraction of the sample points in the polygon.
C9_ClassifyTile ==
    (fn_result # None /\ Get(fn_args)[1] = "_classify_tile")
    => LET rect == Get(fn_args)[2]
           polygon == Get(fn_args)[3]
           n == Len(polygon)
           all_corners == \A c \in 1..4 : point_in_polygon(rect[c], polygon)
           apart ==
               /\ \A i \in 1..n : ~_point_in_rect(polygon[i], rect)
               /\ \A c \in 1..4 : ~point_in_polygon(rect[c], polygon)
               /\ \A e \in 1..4 : \A i \in 1..n :
                     ~_segments_intersect(rect[e], rect[(e % 4) + 1],
                                          polygon[i], polygon[(i % n) + 1])
           estimate == SamplesInside(rect, polygon)
       IN  /\ (Get(fn_result) = <<"full", 64>>) <=> all_corners
           /\ Get(fn_result) =
                  IF all_corners THEN <<"full", 64>>
                  ELSE IF apart \/ estimate <= 0 THEN <<"excluded", 0>>
                  ELSE <<"partial", estimate>>

\* _classify_tile has returned partial for a tile that the polygon crosses
\* from side to side: none of its corners is in the polygon and no polygon
\* vertex is in it
C9_Witness ==
    /\ fn_result # None
    /\ Get(fn_args)[1] = "_classify_tile"
    /\ Get(fn_result)[1] = "partial"
    /\ Get(fn_result)[2] < 64
    /\ LET rect == Get(fn_args)[2]
           polygon == Get(fn_args)[3]
       IN  /\ \A i \in 1..Len(polygon) : ~_point_in_rect(polygon[i], rect)
           /\ \A c \in 1..4 : ~point_in_polygon(rect[c], polygon)

=============================================================================
